---- MODULE Spec2Model ----
(***************************************************************************)
(* Stream-normalisation pipeline of lite-lingo-backend:                    *)
(*   - MarkerStreamProcessor (src/src/translate/marker-stream.processor.ts)*)
(*   - the stream dispatchers TranslateService / TranslateServiceV2        *)
(* Strings are sequences of one-character strings, indices are 0-based as  *)
(* in the TypeScript source.                                               *)
(***************************************************************************)
EXTENDS Integers, Sequences, FiniteSets, TLC

----------------------------------------------------------------------------
(* Bounds of the model *)

\* number of pieces (markers / text spans) an upstream text is built from
MaxPieces == 3
\* longest short fragment the adapter delivers (it may also deliver all the rest)
MaxFrag == 1
\* number of items (fragments or events) an adapter delivers before it terminates
MaxItems == 3
\* number of fragments each of two concurrent requests receives
MaxEach == 2

----------------------------------------------------------------------------
(* String helpers (JavaScript String methods) *)

Min(S) == CHOOSE x \in S : \A y \in S : x <= y

\* String.prototype.substring(a, b), 0-based, end exclusive
Substring(s, a, b) == SubSeq(s, a + 1, b)

\* String.prototype.substring(a)
SubstringFrom(s, a) == SubSeq(s, a + 1, Len(s))

\* String.prototype.indexOf(m): smallest 0-based index of an occurrence, -1 if none
IndexOf(s, m) ==
  LET hits == { i \in 0..(Len(s) - Len(m)) :
                  /\ s[i + 1] = m[1]
                  /\ SubSeq(s, i + 1, i + Len(m)) = m }
  IN  IF hits = {} THEN -1 ELSE Min(hits)

\* String.prototype.endsWith(suffix)
EndsWith(s, suffix) ==
  /\ Len(s) >= Len(suffix)
  /\ SubSeq(s, Len(s) - Len(suffix) + 1, Len(s)) = suffix

----------------------------------------------------------------------------
(* Marker tables *)

\* '[EXPLANATION_START]'
M_EXPLANATION_START ==
  <<"[","E","X","P","L","A","N","A","T","I","O","N","_","S","T","A","R","T","]">>

\* '[CONTEXT_EXPLANATION_START]'
M_CONTEXT_EXPLANATION_START ==
  <<"[","C","O","N","T","E","X","T","_","E","X","P","L","A","N","A","T","I","O","N","_","S","T","A","R","T","]">>

\* '[DICTIONARY_START]'
M_DICTIONARY_START ==
  <<"[","D","I","C","T","I","O","N","A","R","Y","_","S","T","A","R","T","]">>

\* '[TRANSLATION_RESULT_START]'
M_TRANSLATION_RESULT_START ==
  <<"[","T","R","A","N","S","L","A","T","I","O","N","_","R","E","S","U","L","T","_","S","T","A","R","T","]">>

\* '[FRAGMENT_ERROR_START]'
M_FRAGMENT_ERROR_START ==
  <<"[","F","R","A","G","M","E","N","T","_","E","R","R","O","R","_","S","T","A","R","T","]">>

\* '[EXPLANATION_END]'
M_EXPLANATION_END ==
  <<"[","E","X","P","L","A","N","A","T","I","O","N","_","E","N","D","]">>

\* '[CONTEXT_EXPLANATION_END]'
M_CONTEXT_EXPLANATION_END ==
  <<"[","C","O","N","T","E","X","T","_","E","X","P","L","A","N","A","T","I","O","N","_","E","N","D","]">>

\* '[DICTIONARY_END]'
M_DICTIONARY_END ==
  <<"[","D","I","C","T","I","O","N","A","R","Y","_","E","N","D","]">>

\* '[TRANSLATION_RESULT_END]'
M_TRANSLATION_RESULT_END ==
  <<"[","T","R","A","N","S","L","A","T","I","O","N","_","R","E","S","U","L","T","_","E","N","D","]">>

\* '[FRAGMENT_ERROR_END]'
M_FRAGMENT_ERROR_END ==
  <<"[","F","R","A","G","M","E","N","T","_","E","R","R","O","R","_","E","N","D","]">>

\* '_START]'
START_SUFFIX ==
  <<"_","S","T","A","R","T","]">>

\* const SectionNames: Record<string, string>, in key order
SectionNames ==
  << [marker |-> M_EXPLANATION_START,         name |-> "EXPLANATION"],
     [marker |-> M_CONTEXT_EXPLANATION_START, name |-> "CONTEXT_EXPLANATION"],
     [marker |-> M_DICTIONARY_START,          name |-> "DICTIONARY"],
     [marker |-> M_TRANSLATION_RESULT_START,  name |-> "TRANSLATION_RESULT"],
     [marker |-> M_FRAGMENT_ERROR_START,      name |-> "FRAGMENT_ERROR"] >>

\* const EndMarkers: Record<string, string>, in key order
EndMarkers ==
  << [name |-> "EXPLANATION",         marker |-> M_EXPLANATION_END],
     [name |-> "CONTEXT_EXPLANATION", marker |-> M_CONTEXT_EXPLANATION_END],
     [name |-> "DICTIONARY",          marker |-> M_DICTIONARY_END],
     [name |-> "TRANSLATION_RESULT",  marker |-> M_TRANSLATION_RESULT_END],
     [name |-> "FRAGMENT_ERROR",      marker |-> M_FRAGMENT_ERROR_END] >>

\* currentSection: string | null
NoSection == "null"

Sections == { SectionNames[k].name : k \in 1..Len(SectionNames) }

\* Object.keys(SectionNames)
startMarkers == [k \in 1..Len(SectionNames) |-> SectionNames[k].marker]

\* Object.values(EndMarkers)
endMarkers == [k \in 1..Len(EndMarkers) |-> EndMarkers[k].marker]

\* [...startMarkers, ...endMarkers]
allMarkers == startMarkers \o endMarkers

\* SectionNames[marker]
SectionNameOf(marker) ==
  LET ks == { k \in 1..Len(SectionNames) : SectionNames[k].marker = marker }
  IN  IF ks = {} THEN NoSection ELSE SectionNames[Min(ks)].name

\* Object.keys(EndMarkers).find((key) => EndMarkers[key] === marker)
ExpectedSectionOf(marker) ==
  LET ks == { k \in 1..Len(EndMarkers) : EndMarkers[k].marker = marker }
  IN  IF ks = {} THEN NoSection ELSE EndMarkers[Min(ks)].name

----------------------------------------------------------------------------
(* Response envelope *)

\* the data of an envelope: { type, text?, payload? }
EventData(type, txt, section, status) ==
  [type |-> type, text |-> txt, section |-> section, status |-> status]

\* ApiResponse.success(data, message, code = '0')
ApiResponseSuccess(data) == [code |-> "0", data |-> data]

\* ApiResponse.error(message, code, data)
ApiResponseError(code, data) == [code |-> code, data |-> data]

TextChunk(txt)        == ApiResponseSuccess(EventData("text_chunk", txt, "", ""))
SectionStart(section) == ApiResponseSuccess(EventData("section_start", <<>>, section, ""))
SectionEnd(section)   == ApiResponseSuccess(EventData("section_end", <<>>, section, ""))

----------------------------------------------------------------------------
(* MarkerStreamProcessor *)

NullMarker == [marker |-> <<>>, index |-> -1, isStart |-> FALSE]

RECURSIVE findFirstMarkerFrom(_, _, _)
findFirstMarkerFrom(txt, k, firstMarker) ==
  IF k > Len(allMarkers) THEN firstMarker
  ELSE LET marker == allMarkers[k]
           index  == IndexOf(txt, marker)
       IN  findFirstMarkerFrom(txt, k + 1,
             IF index # -1 /\ (firstMarker = NullMarker \/ index < firstMarker.index)
             THEN [marker |-> marker, index |-> index,
                   isStart |-> EndsWith(marker, START_SUFFIX)]
             ELSE firstMarker)

\* mutation: the marker found last in the order of the table wins
RECURSIVE findLastListedMarkerFrom(_, _, _)
findLastListedMarkerFrom(txt, k, firstMarker) ==
  IF k > Len(allMarkers) THEN firstMarker
  ELSE LET marker == allMarkers[k]
           index  == IndexOf(txt, marker)
       IN  findLastListedMarkerFrom(txt, k + 1,
             IF index # -1
             THEN [marker |-> marker, index |-> index,
                   isStart |-> EndsWith(marker, START_SUFFIX)]
             ELSE firstMarker)

findLastListedMarker(txt) == findLastListedMarkerFrom(txt, 1, NullMarker)

findFirstMarker(txt) == findFirstMarkerFrom(txt, 1, NullMarker)

\* chunkSize = 3
DefaultChunkSize == 3

RECURSIVE emitTextInChunksFrom(_, _, _)
emitTextInChunksFrom(txt, i, chunkSize) ==
  IF i >= Len(txt) THEN <<>>
  ELSE <<TextChunk(Substring(txt, i, IF i + chunkSize > Len(txt) THEN Len(txt) ELSE i + chunkSize))>>
       \o emitTextInChunksFrom(txt, i + chunkSize, chunkSize)

\* mutation: the chunks are one character longer
emitTextInChunksWide(txt) == emitTextInChunksFrom(txt, 0, DefaultChunkSize + 1)

emitTextInChunks(txt) == emitTextInChunksFrom(txt, 0, DefaultChunkSize)

\* the two versions of the class: "chunking" emits text three characters at a
\* time, "whole" emits one text_chunk per span
Variants == {"chunking", "whole"}

emitText(txt, v) == IF v = "chunking" THEN emitTextInChunks(txt) ELSE <<TextChunk(txt)>>

\* mutation: the text before a marker is emitted whether or not a section is open
emitTextBeforeMarkerAnywhere(textBeforeMarker, section, v) ==
  IF Len(textBeforeMarker) > 0 THEN emitText(textBeforeMarker, v) ELSE <<>>

\* process: the text before the marker is emitted only inside a section
emitTextBeforeMarker(textBeforeMarker, section, v) ==
  IF Len(textBeforeMarker) > 0 /\ section # NoSection
  THEN emitText(textBeforeMarker, v)
  ELSE <<>>

\* mutation: the new section is announced before the open one is closed
handleStartMarkerStartFirst(marker, section) ==
  LET sectionName == SectionNameOf(marker)
  IN  [events |-> <<SectionStart(sectionName)>>
                  \o (IF section # NoSection THEN <<SectionEnd(section)>> ELSE <<>>),
       currentSection |-> sectionName]

\* mutation: an open marker met while a section is open is dropped
handleStartMarkerDroppedWhenOpen(marker, section) ==
  IF section # NoSection
  THEN [events |-> <<>>, currentSection |-> section]
  ELSE [events |-> <<SectionStart(SectionNameOf(marker))>>, currentSection |-> SectionNameOf(marker)]

\* mutation: an open marker never closes the section that is open
handleStartMarkerNoImplicitClose(marker, section) ==
  [events |-> <<SectionStart(SectionNameOf(marker))>>, currentSection |-> SectionNameOf(marker)]

\* process: if (isStart) { ... }
handleStartMarker(marker, section) ==
  LET sectionName == SectionNameOf(marker)
  IN  IF sectionName # NoSection
      THEN [events |-> (IF section # NoSection THEN <<SectionEnd(section)>> ELSE <<>>)
                       \o <<SectionStart(sectionName)>>,
            currentSection |-> sectionName]
      ELSE [events |-> <<>>, currentSection |-> section]

\* mutation: any close marker closes whatever section is open
handleEndMarkerAnySection(marker, section) ==
  IF section # NoSection
  THEN [events |-> <<SectionEnd(section)>>, currentSection |-> NoSection]
  ELSE [events |-> <<>>, currentSection |-> section]

\* process: else { // END marker ... }
handleEndMarker(marker, section) ==
  LET expectedSection == ExpectedSectionOf(marker)
  IN  IF expectedSection # NoSection /\ section = expectedSection
      THEN [events |-> <<SectionEnd(section)>>, currentSection |-> NoSection]
      ELSE [events |-> <<>>, currentSection |-> section]

\* mutation: only the opening bracket of the marker leaves the buffer
processMarkerKeepsTail(buf, section, firstMarkerInfo, v) ==
  LET marker == firstMarkerInfo.marker
      index  == firstMarkerInfo.index
      textBeforeMarker == Substring(buf, 0, index)
      handled == IF firstMarkerInfo.isStart
                 THEN handleStartMarker(marker, section)
                 ELSE handleEndMarker(marker, section)
  IN  [buffer |-> SubstringFrom(buf, index + 1),
       currentSection |-> handled.currentSection,
       events |-> emitTextBeforeMarker(textBeforeMarker, section, v) \o handled.events]

\* process: one iteration of the while loop that found firstMarkerInfo
processMarker(buf, section, firstMarkerInfo, v) ==
  LET marker == firstMarkerInfo.marker
      index  == firstMarkerInfo.index
      textBeforeMarker == Substring(buf, 0, index)
      handled == IF firstMarkerInfo.isStart
                 THEN handleStartMarker(marker, section)
                 ELSE handleEndMarker(marker, section)
  IN  [buffer |-> SubstringFrom(buf, index + Len(marker)),
       currentSection |-> handled.currentSection,
       events |-> emitTextBeforeMarker(textBeforeMarker, section, v) \o handled.events]

\* process: the while (continueProcessing) loop; iters records every iteration
RECURSIVE processLoop(_, _, _, _, _)
processLoop(buf, section, eventsToSend, its, v) ==
  LET firstMarkerInfo == findFirstMarker(buf)
  IN  IF firstMarkerInfo = NullMarker
      THEN [buffer |-> buf, currentSection |-> section,
            events |-> eventsToSend, iters |-> its]
      ELSE LET r == processMarker(buf, section, firstMarkerInfo, v)
           IN  processLoop(r.buffer, r.currentSection, eventsToSend \o r.events,
                           Append(its, [marker |-> firstMarkerInfo.marker,
                                        isStart |-> firstMarkerInfo.isStart,
                                        textBefore |-> Substring(buf, 0, firstMarkerInfo.index),
                                        sectionBefore |-> section,
                                        sectionAfter |-> r.currentSection,
                                        bufferAfter |-> r.buffer,
                                        events |-> r.events]), v)

\* mutation: what is left in the buffer after the loop is emitted at once
processEagerFlush(buf, section, chunk, v) ==
  LET r == processLoop(buf \o chunk, section, <<>>, <<>>, v)
  IN  IF Len(r.buffer) > 0 /\ r.currentSection # NoSection
      THEN [r EXCEPT !.events = r.events \o emitText(r.buffer, v), !.buffer = <<>>]
      ELSE r

\* mutation: the loop stops after the first marker it handles
processFirstMarkerOnly(buf, section, chunk, v) ==
  LET firstMarkerInfo == findFirstMarker(buf \o chunk)
  IN  IF firstMarkerInfo = NullMarker
      THEN [buffer |-> buf \o chunk, currentSection |-> section, events |-> <<>>, iters |-> <<>>]
      ELSE LET r == processMarker(buf \o chunk, section, firstMarkerInfo, v)
           IN  [buffer |-> r.buffer, currentSection |-> r.currentSection, events |-> r.events,
                iters |-> << [marker |-> firstMarkerInfo.marker,
                              isStart |-> firstMarkerInfo.isStart,
                              textBefore |-> Substring(buf \o chunk, 0, firstMarkerInfo.index),
                              sectionBefore |-> section,
                              sectionAfter |-> r.currentSection,
                              bufferAfter |-> r.buffer,
                              events |-> r.events] >>]

\* MarkerStreamProcessor.process(chunk)
process(buf, section, chunk, v) == processLoop(buf \o chunk, section, <<>>, <<>>, v)

\* mutation: the flush leaves buffer and currentSection as they were
finalizeKeepsState(buf, section, v) ==
  IF Len(buf) > 0 /\ section # NoSection
  THEN [buffer |-> buf, currentSection |-> section,
        events |-> emitText(buf, v) \o <<SectionEnd(section)>>]
  ELSE [buffer |-> buf, currentSection |-> section, events |-> <<>>]

\* mutation: the flush forgets the implicit section_end
finalizeNoSectionEnd(buf, section, v) ==
  IF Len(buf) > 0 /\ section # NoSection
  THEN [buffer |-> <<>>, currentSection |-> NoSection, events |-> emitText(buf, v)]
  ELSE [buffer |-> <<>>, currentSection |-> section, events |-> <<>>]

\* mutation: the section is closed before its remaining text is emitted
finalizeEndBeforeText(buf, section, v) ==
  IF Len(buf) > 0 /\ section # NoSection
  THEN [buffer |-> <<>>, currentSection |-> NoSection,
        events |-> <<SectionEnd(section)>> \o emitText(buf, v)]
  ELSE [buffer |-> <<>>, currentSection |-> section, events |-> <<>>]

\* MarkerStreamProcessor.finalize()
finalize(buf, section, v) ==
  IF Len(buf) > 0 /\ section # NoSection
  THEN [buffer |-> <<>>, currentSection |-> NoSection,
        events |-> emitText(buf, v) \o <<SectionEnd(section)>>]
  ELSE [buffer |-> <<>>, currentSection |-> section, events |-> <<>>]

----------------------------------------------------------------------------
(* AiProviderFactory *)

UpperCaseLetters ==
  <<"A","B","C","D","E","F","G","H","I","J","K","L","M","N","O","P","Q","R","S","T","U","V","W","X","Y","Z">>

LowerCaseLetters ==
  <<"a","b","c","d","e","f","g","h","i","j","k","l","m","n","o","p","q","r","s","t","u","v","w","x","y","z">>

\* String.prototype.toLowerCase()
toLowerCase(s) ==
  [i \in 1..Len(s) |->
     IF \E k \in 1..Len(UpperCaseLetters) : UpperCaseLetters[k] = s[i]
     THEN LowerCaseLetters[CHOOSE k \in 1..Len(UpperCaseLetters) : UpperCaseLetters[k] = s[i]]
     ELSE s[i]]

\* 'deepseek'
K_deepseek == <<"d","e","e","p","s","e","e","k">>

\* 'openrouter'
K_openrouter == <<"o","p","e","n","r","o","u","t","e","r">>

\* the values an API key of the configuration may have
KeyValues == {"undefined", "", "key"}

\* a configuration value that is a non-empty string
Truthy(value) == value \notin {"undefined", ""}

\* Map.prototype.get on the providers map, a set of <<key, provider>> entries
mapGet(map, key) ==
  IF \E e \in map : e[1] = key
  THEN (CHOOSE e \in map : e[1] = key)[2]
  ELSE "undefined"

\* initializeProviders(): a provider is registered when its API key is configured
initializeProviders(config) ==
  (IF Truthy(config.DEEPSEEK_API_KEY) THEN {<<K_deepseek, "DeepseekChatProvider">>} ELSE {})
  \cup
  (IF Truthy(config.OPENROUTER_API_KEY) THEN {<<K_openrouter, "OpenRouterChatProvider">>} ELSE {})

\* mutation: the name is looked up as it was given
getProviderCaseSensitive(map, pname) ==
  LET requested == IF pname.defined /\ pname.value # <<>> THEN mapGet(map, pname.value) ELSE "undefined"
      fallback == IF requested = "undefined" THEN mapGet(map, K_openrouter) ELSE requested
  IN  IF fallback = "undefined" THEN "null" ELSE fallback

\* getProvider(providerName?)
getProvider(map, pname) ==
  LET name == IF pname.defined THEN toLowerCase(pname.value) ELSE <<>>
      requested == IF pname.defined /\ name # <<>> THEN mapGet(map, name) ELSE "undefined"
      fallback == IF requested = "undefined" THEN mapGet(map, K_openrouter) ELSE requested
  IN  IF fallback = "undefined" THEN "null" ELSE fallback

----------------------------------------------------------------------------
(* State *)

VARIABLES
  variant,          \* which version of MarkerStreamProcessor is running
  text,             \* the complete upstream text of the request
  pos,              \* number of characters of text already delivered
  buffer,           \* MarkerStreamProcessor.buffer
  currentSection,   \* MarkerStreamProcessor.currentSection
  events,           \* every event returned so far, in order
  lastOp,           \* the last call made: "none", "process" or "finalize"
  lastChunk,        \* argument of the last process call
  prevBuffer,       \* buffer before the last call
  prevSection,      \* currentSection before the last call
  lastEvents,       \* events returned by the last call
  iters,            \* loop iterations of the last process call
  finalizeCalls,    \* "none", "once" or "twice": finalize calls made
  dvariant,         \* which dispatcher serves the request ("none" in a parser run)
  adapter,          \* the adapter's stream: "streaming", "completed" or "errored"
  delivered,        \* number of items the adapter has delivered
  out,              \* envelopes emitted on the dispatcher's output stream, in order
  outState,         \* the output stream: "open" or "completed"
  subject,          \* the Subject of the forwarding dispatcher
  streamErrored,    \* the forwarding dispatcher's streamErrored flag
  analysisInfoSent, \* the marker dispatcher's analysisInfoSent flag
  analysisBuffer,   \* the marker dispatcher's analysisBuffer
  env,              \* the configuration: the API key of each provider
  providers,        \* AiProviderFactory.providers: the registered names
  providerName,     \* dto.provider of the request
  provider,         \* the result of the last getProvider call
  calls,            \* invocations of generateChatStream / generateRawChatStream
  response,         \* what the dispatcher returned: "none", "stream" or "configError"
  requestedModel,   \* dto.model of the request
  finalModel,       \* the model handed to the provider's stream
  client,           \* the transport's subscription to the returned stream
  adapterSub,       \* the dispatcher's subscription to the adapter's stream
  written,          \* envelopes written to the transport (res.write), in order, each
                    \* with the notification that caused it and its place among that
                    \* notification's envelopes
  consumedAfter,    \* adapter notifications consumed after the client unsubscribed
  ended,            \* res.end() was called
  contentType,      \* the Content-Type header of the response
  jsonResponse,     \* the plain JSON answer sent with res.status(...).json(...), or NoJson
  caught,           \* the exception HttpExceptionFilter has caught, or NoException
  akind,            \* which provider stream runs (adapter runs)
  wire,             \* low-level chunks received so far by the provider stream, each
                    \* with the line buffer it met and the events it caused
  lineBuffer,       \* the provider stream's line buffer
  emitted,          \* what the provider stream delivered to its subscriber, in order
  astream,          \* the provider stream: "open", "completed" or "errored"
  pipelines,        \* the requests served side by side: the local state of each call
  tts               \* a POST /tts request: the synthesis call, its promise, the audio
                    \* stream and the HTTP response

parserVars == <<variant, text, pos, buffer, currentSection, events, lastOp,
                lastChunk, prevBuffer, prevSection, lastEvents, iters, finalizeCalls>>

dispatchVars == <<dvariant, adapter, delivered, out, outState, subject, streamErrored,
                  analysisInfoSent, analysisBuffer>>

requestVars == <<env, providers, providerName, provider, calls, response, requestedModel,
                 finalModel>>

transportVars == <<client, adapterSub, written, consumedAfter, ended, contentType, jsonResponse,
                   caught>>

adapterVars == <<akind, wire, lineBuffer, emitted, astream>>

serverVars == <<pipelines, tts>>

vars == <<parserVars, dispatchVars, requestVars, transportVars, adapterVars, serverVars>>

\* a fresh MarkerStreamProcessor with nothing fed
ParserIdle ==
  /\ text = <<>>
  /\ pos = 0
  /\ buffer = <<>>
  /\ currentSection = NoSection
  /\ events = <<>>
  /\ lastOp = "none"
  /\ lastChunk = <<>>
  /\ prevBuffer = <<>>
  /\ prevSection = NoSection
  /\ lastEvents = <<>>
  /\ iters = <<>>
  /\ finalizeCalls = "none"

\* a dispatcher whose adapter has delivered nothing yet
DispatchIdle ==
  /\ adapter = "streaming"
  /\ delivered = 0
  /\ out = <<>>
  /\ outState = "open"
  /\ subject = [closed |-> FALSE, isStopped |-> FALSE]
  /\ streamErrored = FALSE
  /\ analysisInfoSent = FALSE
  /\ analysisBuffer = <<>>

\* no request has reached the factory or a dispatcher's entry
RequestIdle ==
  /\ env = [DEEPSEEK_API_KEY |-> "key", OPENROUTER_API_KEY |-> "key"]
  /\ providers = initializeProviders(env)
  /\ providerName = [defined |-> FALSE, value |-> <<>>]
  /\ provider = "unset"
  /\ calls = 0
  /\ response = "none"
  /\ requestedModel = "undefined"
  /\ finalModel = "unset"

\* no exception was caught
NoException == [kind |-> "none", status |-> 0, form |-> "none"]

\* no plain JSON response was sent
NoJson == [status |-> 0, code |-> "none"]

\* the controller has set the event-stream headers and subscribed; nothing is
\* written yet
TransportIdle ==
  /\ client = "subscribed"
  /\ adapterSub = "subscribed"
  /\ written = <<>>
  /\ consumedAfter = 0
  /\ ended = FALSE
  /\ contentType = "text/event-stream"
  /\ jsonResponse = NoJson
  /\ caught = NoException

\* no provider stream is observed
AdapterIdle ==
  /\ akind = "none"
  /\ wire = <<>>
  /\ lineBuffer = <<>>
  /\ emitted = <<>>
  /\ astream = "open"

\* no other request is being served
\* no POST /tts request
NoTts ==
  [service |-> "none", language |-> "undefined", voice |-> "undefined", finalVoice |-> "none",
   sdkEvents |-> 0,
   promise |-> [state |-> "pending", value |-> "none", exception |-> NoException],
   pushed |-> 0, audioEnded |-> FALSE, destroyed |-> FALSE,
   res |-> [status |-> 0, contentType |-> "undefined"]]

ServerIdle ==
  /\ pipelines = <<>>
  /\ tts = NoTts

----------------------------------------------------------------------------
(* Inputs of the parser runs *)

\* plain text with an opening bracket that starts no marker
Prose == <<"h","i","[","x","y">>

Pieces == << M_EXPLANATION_START, M_EXPLANATION_END, M_DICTIONARY_START, Prose >>

RECURSIVE Flatten(_)
Flatten(ps) == IF ps = <<>> THEN <<>> ELSE Pieces[Head(ps)] \o Flatten(Tail(ps))

Texts == { Flatten(ps) : ps \in UNION { [1..n -> 1..Len(Pieces)] : n \in 1..MaxPieces } }

\* the lengths the next fragment may have: a short one, or all the rest
FragmentLengths ==
  LET rest == Len(text) - pos
  IN  IF rest = 0 THEN {} ELSE (1..(IF rest < MaxFrag THEN rest ELSE MaxFrag)) \cup {rest}

----------------------------------------------------------------------------
(* Parser runs: one MarkerStreamProcessor fed with the fragments of one text *)

InitParser ==
  /\ variant \in Variants
  /\ text \in Texts
  /\ pos = 0
  /\ buffer = <<>>
  /\ currentSection = NoSection
  /\ events = <<>>
  /\ lastOp = "none"
  /\ lastChunk = <<>>
  /\ prevBuffer = <<>>
  /\ prevSection = NoSection
  /\ lastEvents = <<>>
  /\ iters = <<>>
  /\ finalizeCalls = "none"
  /\ dvariant = "none"
  /\ adapter = "streaming"
  /\ delivered = 0
  /\ out = <<>>
  /\ outState = "open"
  /\ subject = [closed |-> FALSE, isStopped |-> FALSE]
  /\ streamErrored = FALSE
  /\ analysisInfoSent = FALSE
  /\ analysisBuffer = <<>>
  /\ RequestIdle
  /\ TransportIdle
  /\ AdapterIdle
  /\ ServerIdle

\* processor.process(chunk) with the next n characters of the text
Process(n) ==
  /\ finalizeCalls = "none"
  /\ LET chunk == SubSeq(text, pos + 1, pos + n)
         r == process(buffer, currentSection, chunk, variant)
     IN  /\ buffer' = r.buffer
         /\ currentSection' = r.currentSection
         /\ events' = events \o r.events
         /\ lastEvents' = r.events
         /\ iters' = r.iters
         /\ lastChunk' = chunk
  /\ pos' = pos + n
  /\ lastOp' = "process"
  /\ prevBuffer' = buffer
  /\ prevSection' = currentSection
  /\ UNCHANGED <<variant, text, finalizeCalls, dispatchVars, requestVars, transportVars, adapterVars, serverVars>>

\* processor.finalize(), and a second call right after the first
Finalize ==
  /\ finalizeCalls \in {"none", "once"}
  /\ LET r == finalize(buffer, currentSection, variant)
     IN  /\ buffer' = r.buffer
         /\ currentSection' = r.currentSection
         /\ events' = events \o r.events
         /\ lastEvents' = r.events
  /\ iters' = <<>>
  /\ lastOp' = "finalize"
  /\ prevBuffer' = buffer
  /\ prevSection' = currentSection
  /\ finalizeCalls' = IF finalizeCalls = "none" THEN "once" ELSE "twice"
  /\ UNCHANGED <<variant, text, pos, lastChunk, dispatchVars, requestVars, transportVars, adapterVars, serverVars>>

NextParser ==
  \/ \E n \in FragmentLengths : Process(n)
  \/ Finalize

Spec == InitParser /\ [][NextParser]_vars

\* marker sequences that break the protocol: duplicate opens, stray closes,
\* closes of another section, one or two in a row
AnomalyPieces ==
  { M_EXPLANATION_START, M_DICTIONARY_START, M_EXPLANATION_END, M_DICTIONARY_END }

Anomalies == AnomalyPieces \cup { a \o b : a \in AnomalyPieces, b \in AnomalyPieces }

\* a well-formed section: open marker, text, matching close marker
WellFormedSection == (M_EXPLANATION_START \o Prose) \o M_EXPLANATION_END

\* a processor fed an anomaly followed by a well-formed section
InitRecovery ==
  /\ variant \in Variants
  /\ text \in { a \o WellFormedSection : a \in Anomalies }
  /\ pos = 0
  /\ buffer = <<>>
  /\ currentSection = NoSection
  /\ events = <<>>
  /\ lastOp = "none"
  /\ lastChunk = <<>>
  /\ prevBuffer = <<>>
  /\ prevSection = NoSection
  /\ lastEvents = <<>>
  /\ iters = <<>>
  /\ finalizeCalls = "none"
  /\ dvariant = "none"
  /\ DispatchIdle
  /\ RequestIdle
  /\ TransportIdle
  /\ AdapterIdle
  /\ ServerIdle

RecoverySpec == InitRecovery /\ [][NextParser]_vars

----------------------------------------------------------------------------
(* Dispatchers *)

\* '[ANALYSIS_INFO_START]'
ANALYSIS_START_MARKER ==
  <<"[","A","N","A","L","Y","S","I","S","_","I","N","F","O","_","S","T","A","R","T","]">>

\* '[ANALYSIS_INFO_END]'
ANALYSIS_END_MARKER ==
  <<"[","A","N","A","L","Y","S","I","S","_","I","N","F","O","_","E","N","D","]">>

\* '[STREAM_END]'
STREAM_END_MARKER ==
  <<"[","S","T","R","E","A","M","_","E","N","D","]">>

\* { type: 'done', payload: { status } } wrapped by ApiResponse.success
Done(status) == ApiResponseSuccess(EventData("done", <<>>, "", status))

\* mutation: the error event is wrapped as a success
ErrorEnvelopeAsSuccess(code) == ApiResponseSuccess(EventData("error", <<>>, "", ""))

\* { type: 'error', payload: { message } } wrapped by ApiResponse.error(message, code, payload)
ErrorEnvelope(code) == ApiResponseError(code, EventData("error", <<>>, "", ""))

\* a StreamEventPayload delivered by generateChatStream: a parsed JSON line of
\* the model's answer, or the adapter's own parsing_error event
UpstreamEvent(type) == EventData(type, <<>>, "", "")

UpstreamEventTypes == {"context_explanation", "fragment_error", "parsing_error", "done"}

\* the dispatchers of the repository; "parser" is the dispatcher that drives a
\* MarkerStreamProcessor
DVariants == {"endWith", "jsonl", "fwd", "analysis", "parser"}

\* raw text fragments delivered by generateRawChatStream
FwdFragments == { <<"a","b">>, <<"c">> }

ParserFragments == { M_EXPLANATION_START, Prose, M_EXPLANATION_END, M_DICTIONARY_START }

JsonOk == <<"{","}">>

JsonBad == <<"{","x">>

\* analysisBuffer.length > 500
AnalysisLimit == 500

AnalysisFragments ==
  { ANALYSIS_START_MARKER, JsonOk, JsonBad, ANALYSIS_END_MARKER, <<"a","b">>, STREAM_END_MARKER,
    ANALYSIS_END_MARKER \o <<"a","b">>,
    (ANALYSIS_START_MARKER \o JsonOk) \o ANALYSIS_END_MARKER,
    [i \in 1..AnalysisLimit |-> " "] }

InitDispatch ==
  /\ dvariant \in DVariants
  /\ variant \in (IF dvariant = "parser" THEN Variants ELSE {"whole"})
  /\ text = <<>>
  /\ pos = 0
  /\ buffer = <<>>
  /\ currentSection = NoSection
  /\ events = <<>>
  /\ lastOp = "none"
  /\ lastChunk = <<>>
  /\ prevBuffer = <<>>
  /\ prevSection = NoSection
  /\ lastEvents = <<>>
  /\ iters = <<>>
  /\ finalizeCalls = "none"
  /\ adapter = "streaming"
  /\ delivered = 0
  /\ out = <<>>
  /\ outState = "open"
  /\ subject = [closed |-> FALSE, isStopped |-> FALSE]
  /\ streamErrored = FALSE
  /\ analysisInfoSent = FALSE
  /\ analysisBuffer = <<>>
  /\ RequestIdle
  /\ TransportIdle
  /\ AdapterIdle
  /\ ServerIdle

\* the adapter's stream is live and may deliver one more item
CanDeliver == adapter = "streaming" /\ delivered < MaxItems

(* TranslateService.generateStream: map / catchError / endWith *)

\* map((eventPayload) => ApiResponse.success(eventPayload, '', '0'))
endWithMap(eventPayload) == ApiResponseSuccess(eventPayload)

\* catchError(...) returns of(ApiResponse.error(err.message, 'STREAM_ERROR', errorPayload));
\* endWith(done completed) follows the catchError in the pipe
endWithOnError(o) == o \o << ErrorEnvelope("STREAM_ERROR"), Done("completed") >>

\* endWith(ApiResponse.success({ type: 'done', payload: { status: 'completed' } }))
endWithOnComplete(o) == Append(o, Done("completed"))

EndWithNext(ev) ==
  /\ dvariant = "endWith"
  /\ CanDeliver
  /\ out' = Append(out, endWithMap(ev))
  /\ delivered' = delivered + 1
  /\ UNCHANGED <<parserVars, requestVars, adapterVars, serverVars, dvariant, adapter, outState, subject, streamErrored,
                 analysisInfoSent, analysisBuffer>>

EndWithComplete ==
  /\ dvariant = "endWith"
  /\ adapter = "streaming"
  /\ adapter' = "completed"
  /\ out' = endWithOnComplete(out)
  /\ outState' = "completed"
  /\ UNCHANGED <<parserVars, requestVars, adapterVars, serverVars, dvariant, delivered, subject, streamErrored,
                 analysisInfoSent, analysisBuffer>>

EndWithError ==
  /\ dvariant = "endWith"
  /\ adapter = "streaming"
  /\ adapter' = "errored"
  /\ out' = endWithOnError(out)
  /\ outState' = "completed"
  /\ UNCHANGED <<parserVars, requestVars, adapterVars, serverVars, dvariant, delivered, subject, streamErrored,
                 analysisInfoSent, analysisBuffer>>

(* TranslateService.generateStream, JSON-lines version: map / catchError *)

\* map((eventPayload) => ...): the code of the envelope depends on the event type
jsonlMap(eventPayload) ==
  IF eventPayload.type = "fragment_error"
  THEN ApiResponseError("FRAGMENT_ERROR", eventPayload)
  ELSE IF eventPayload.type = "parsing_error"
  THEN ApiResponseError("AI_JSON_PARSE_ERROR", eventPayload)
  ELSE ApiResponseSuccess(eventPayload)

\* catchError(...) returns from([error envelope, done failed])
jsonlOnError(o) == o \o << ErrorEnvelope("STREAM_GENERATION_ERROR"), Done("failed") >>

JsonlNext(ev) ==
  /\ dvariant = "jsonl"
  /\ CanDeliver
  /\ out' = Append(out, jsonlMap(ev))
  /\ delivered' = delivered + 1
  /\ UNCHANGED <<parserVars, requestVars, adapterVars, serverVars, dvariant, adapter, outState, subject, streamErrored,
                 analysisInfoSent, analysisBuffer>>

\* nothing follows the catchError in the pipe: completion emits nothing
JsonlComplete ==
  /\ dvariant = "jsonl"
  /\ adapter = "streaming"
  /\ adapter' = "completed"
  /\ outState' = "completed"
  /\ UNCHANGED <<parserVars, requestVars, adapterVars, serverVars, dvariant, delivered, out, subject, streamErrored,
                 analysisInfoSent, analysisBuffer>>

JsonlError ==
  /\ dvariant = "jsonl"
  /\ adapter = "streaming"
  /\ adapter' = "errored"
  /\ out' = jsonlOnError(out)
  /\ outState' = "completed"
  /\ UNCHANGED <<parserVars, requestVars, adapterVars, serverVars, dvariant, delivered, subject, streamErrored,
                 analysisInfoSent, analysisBuffer>>

(* TranslateServiceV2.generateStreamV2, forwarding version: a Subject fed by *)
(* the subscription to the raw stream, with finalize and catchError          *)

\* subject.next(value): a stopped Subject delivers nothing
subjectNext(sub, o, envelope) == IF sub.isStopped THEN o ELSE Append(o, envelope)

\* subject.complete()
subjectComplete(sub) == [sub EXCEPT !.isStopped = TRUE]

\* next: (chunk) => { if (subject.closed) return; if (chunk && chunk.length > 0) subject.next(...) }
fwdOnNext(sub, o, chunk) ==
  IF sub.closed THEN o
  ELSE IF Len(chunk) > 0 THEN subjectNext(sub, o, TextChunk(chunk))
  ELSE o

\* catchError((err) => { streamErrored = true; ... })
fwdCatchError(sub, o) ==
  IF ~sub.closed
  THEN [out |-> subjectNext(sub,
                  subjectNext(sub, o, ErrorEnvelope("STREAM_GENERATION_ERROR")),
                  Done("failed")),
        subject |-> subjectComplete(sub)]
  ELSE [out |-> o, subject |-> sub]

\* finalize(() => { ... }): runs when the raw stream's subscription ends
fwdFinalize(sub, errored, o) ==
  IF ~sub.closed
  THEN [out |-> IF ~errored THEN subjectNext(sub, o, Done("completed")) ELSE o,
        subject |-> subjectComplete(sub)]
  ELSE [out |-> o, subject |-> sub]

FwdNext(chunk) ==
  /\ dvariant = "fwd"
  /\ CanDeliver
  /\ out' = fwdOnNext(subject, out, chunk)
  /\ delivered' = delivered + 1
  /\ UNCHANGED <<parserVars, requestVars, adapterVars, serverVars, dvariant, adapter, outState, subject, streamErrored,
                 analysisInfoSent, analysisBuffer>>

FwdComplete ==
  /\ dvariant = "fwd"
  /\ adapter = "streaming"
  /\ adapter' = "completed"
  /\ LET f == fwdFinalize(subject, streamErrored, out)
     IN  /\ out' = f.out
         /\ subject' = f.subject
         /\ outState' = IF f.subject.isStopped THEN "completed" ELSE outState
  /\ UNCHANGED <<parserVars, requestVars, adapterVars, serverVars, dvariant, delivered, streamErrored,
                 analysisInfoSent, analysisBuffer>>

\* the error reaches catchError first; the finalize callback runs at teardown
FwdError ==
  /\ dvariant = "fwd"
  /\ adapter = "streaming"
  /\ adapter' = "errored"
  /\ streamErrored' = TRUE
  /\ LET c == fwdCatchError(subject, out)
         f == fwdFinalize(c.subject, TRUE, c.out)
     IN  /\ out' = f.out
         /\ subject' = f.subject
         /\ outState' = IF f.subject.isStopped THEN "completed" ELSE outState
  /\ UNCHANGED <<parserVars, requestVars, adapterVars, serverVars, dvariant, delivered, analysisInfoSent, analysisBuffer>>

(* TranslateServiceV2.generateStreamV2, marker version: mergeMap / catchError *)

Whitespace == {" ", "\n", "\t"}

\* String.prototype.trim(): from the first to the last character that is no
\* white space
Trim(s) ==
  LET kept == { i \in 1..Len(s) : s[i] \notin Whitespace }
  IN  IF kept = {} THEN <<>>
      ELSE SubSeq(s, CHOOSE i \in kept : \A j \in kept : i <= j,
                     CHOOSE i \in kept : \A j \in kept : j <= i)

\* the JSON texts JSON.parse(jsonStr) accepts
JsonParses(jsonStr) == jsonStr = JsonOk

\* the text part of mergeMap: strip [STREAM_END] and what follows it
sendTextChunk(chunk) ==
  IF Len(chunk) > 0
  THEN LET finalMarkerIndex == IndexOf(chunk, STREAM_END_MARKER)
           textToSend == IF finalMarkerIndex # -1
                         THEN Substring(chunk, 0, finalMarkerIndex)
                         ELSE chunk
       IN  IF Len(textToSend) > 0 THEN <<TextChunk(textToSend)>> ELSE <<>>
  ELSE <<>>

\* mergeMap that forwards a fragment as text while it still waits for the markers
analysisMergeMapEager(sent, abuf, chunk) ==
  IF ~sent
  THEN LET ab == abuf \o chunk
           startIndex == IndexOf(ab, ANALYSIS_START_MARKER)
           endIndex == IndexOf(ab, ANALYSIS_END_MARKER)
       IN  IF startIndex # -1 /\ endIndex # -1 /\ startIndex < endIndex
           THEN LET jsonStr == Trim(Substring(ab, startIndex + Len(ANALYSIS_START_MARKER), endIndex))
                IN  IF JsonParses(jsonStr)
                    THEN [analysisInfoSent |-> TRUE, analysisBuffer |-> <<>>,
                          responses |->
                            <<ApiResponseSuccess(EventData("analysis_info", jsonStr, "", ""))>>
                            \o sendTextChunk(SubstringFrom(ab, endIndex + Len(ANALYSIS_END_MARKER)))]
                    ELSE [analysisInfoSent |-> TRUE, analysisBuffer |-> <<>>,
                          responses |-> sendTextChunk(ab)]
           ELSE IF Len(ab) > AnalysisLimit
           THEN [analysisInfoSent |-> TRUE, analysisBuffer |-> <<>>,
                 responses |-> sendTextChunk(ab)]
           ELSE [analysisInfoSent |-> FALSE, analysisBuffer |-> ab,
                 responses |-> sendTextChunk(chunk)]
  ELSE [analysisInfoSent |-> sent, analysisBuffer |-> abuf, responses |-> sendTextChunk(chunk)]

\* mergeMap without the safety break: it buffers until both markers are found
analysisMergeMapNoBreak(sent, abuf, chunk) ==
  IF ~sent
  THEN LET ab == abuf \o chunk
           startIndex == IndexOf(ab, ANALYSIS_START_MARKER)
           endIndex == IndexOf(ab, ANALYSIS_END_MARKER)
       IN  IF startIndex # -1 /\ endIndex # -1 /\ startIndex < endIndex
           THEN LET jsonStr == Trim(Substring(ab, startIndex + Len(ANALYSIS_START_MARKER), endIndex))
                IN  IF JsonParses(jsonStr)
                    THEN [analysisInfoSent |-> TRUE, analysisBuffer |-> <<>>,
                          responses |->
                            <<ApiResponseSuccess(EventData("analysis_info", jsonStr, "", ""))>>
                            \o sendTextChunk(SubstringFrom(ab, endIndex + Len(ANALYSIS_END_MARKER)))]
                    ELSE [analysisInfoSent |-> TRUE, analysisBuffer |-> <<>>,
                          responses |-> sendTextChunk(ab)]
           ELSE [analysisInfoSent |-> FALSE, analysisBuffer |-> ab, responses |-> <<>>]
  ELSE [analysisInfoSent |-> sent, analysisBuffer |-> abuf, responses |-> sendTextChunk(chunk)]

\* mergeMap((chunk) => { ... }): the responses of one fragment and the new
\* analysisInfoSent / analysisBuffer
analysisMergeMap(sent, abuf, chunk) ==
  IF ~sent
  THEN LET ab == abuf \o chunk
           startIndex == IndexOf(ab, ANALYSIS_START_MARKER)
           endIndex == IndexOf(ab, ANALYSIS_END_MARKER)
       IN  IF startIndex # -1 /\ endIndex # -1 /\ startIndex < endIndex
           THEN LET jsonStr == Trim(Substring(ab, startIndex + Len(ANALYSIS_START_MARKER), endIndex))
                IN  IF JsonParses(jsonStr)
                    THEN [analysisInfoSent |-> TRUE, analysisBuffer |-> <<>>,
                          responses |->
                            <<ApiResponseSuccess(EventData("analysis_info", jsonStr, "", ""))>>
                            \o sendTextChunk(SubstringFrom(ab, endIndex + Len(ANALYSIS_END_MARKER)))]
                    ELSE [analysisInfoSent |-> TRUE, analysisBuffer |-> <<>>,
                          responses |-> sendTextChunk(ab)]
           ELSE IF Len(ab) > AnalysisLimit
           THEN [analysisInfoSent |-> TRUE, analysisBuffer |-> <<>>,
                 responses |-> sendTextChunk(ab)]
           ELSE [analysisInfoSent |-> FALSE, analysisBuffer |-> ab, responses |-> <<>>]
  ELSE [analysisInfoSent |-> sent, analysisBuffer |-> abuf, responses |-> sendTextChunk(chunk)]

\* catchError(...) returns from([errorResponse]): no done envelope follows
analysisOnError(o) == Append(o, ErrorEnvelope("STREAM_GENERATION_ERROR"))

AnalysisNext(chunk) ==
  /\ dvariant = "analysis"
  /\ CanDeliver
  /\ LET r == analysisMergeMap(analysisInfoSent, analysisBuffer, chunk)
     IN  /\ out' = out \o r.responses
         /\ analysisInfoSent' = r.analysisInfoSent
         /\ analysisBuffer' = r.analysisBuffer
  /\ delivered' = delivered + 1
  /\ UNCHANGED <<parserVars, requestVars, adapterVars, serverVars, dvariant, adapter, outState, subject, streamErrored>>

AnalysisComplete ==
  /\ dvariant = "analysis"
  /\ adapter = "streaming"
  /\ adapter' = "completed"
  /\ outState' = "completed"
  /\ UNCHANGED <<parserVars, requestVars, adapterVars, serverVars, dvariant, delivered, out, subject, streamErrored,
                 analysisInfoSent, analysisBuffer>>

AnalysisError ==
  /\ dvariant = "analysis"
  /\ adapter = "streaming"
  /\ adapter' = "errored"
  /\ out' = analysisOnError(out)
  /\ outState' = "completed"
  /\ UNCHANGED <<parserVars, requestVars, adapterVars, serverVars, dvariant, delivered, subject, streamErrored,
                 analysisInfoSent, analysisBuffer>>

(* The dispatcher that drives one MarkerStreamProcessor per request *)

\* every fragment goes through process; its events are forwarded in order
parserDispatchOnNext(o, processed) == o \o processed.events

\* normal completion: flush the parser, then done(completed)
parserDispatchOnComplete(o, flushed) == (o \o flushed.events) \o << Done("completed") >>

\* adapter failure: flush the parser, then the error envelope, then done(failed)
parserDispatchOnError(o, flushed) ==
  (o \o flushed.events) \o << ErrorEnvelope("STREAM_GENERATION_ERROR"), Done("failed") >>

ParserDispatchNext(chunk) ==
  /\ dvariant = "parser"
  /\ CanDeliver
  /\ LET r == process(buffer, currentSection, chunk, variant)
     IN  /\ out' = parserDispatchOnNext(out, r)
         /\ buffer' = r.buffer
         /\ currentSection' = r.currentSection
         /\ lastEvents' = r.events
         /\ iters' = r.iters
  /\ lastChunk' = chunk
  /\ lastOp' = "process"
  /\ prevBuffer' = buffer
  /\ prevSection' = currentSection
  /\ delivered' = delivered + 1
  /\ UNCHANGED <<requestVars, adapterVars, serverVars, variant, text, pos, events, finalizeCalls, dvariant, adapter, outState,
                 subject, streamErrored, analysisInfoSent, analysisBuffer>>

ParserDispatchComplete ==
  /\ dvariant = "parser"
  /\ adapter = "streaming"
  /\ adapter' = "completed"
  /\ LET f == finalize(buffer, currentSection, variant)
     IN  /\ out' = parserDispatchOnComplete(out, f)
         /\ buffer' = f.buffer
         /\ currentSection' = f.currentSection
         /\ lastEvents' = f.events
  /\ iters' = <<>>
  /\ lastOp' = "finalize"
  /\ prevBuffer' = buffer
  /\ prevSection' = currentSection
  /\ finalizeCalls' = "once"
  /\ outState' = "completed"
  /\ UNCHANGED <<requestVars, adapterVars, serverVars, variant, text, pos, events, lastChunk, dvariant, delivered, subject,
                 streamErrored, analysisInfoSent, analysisBuffer>>

ParserDispatchError ==
  /\ dvariant = "parser"
  /\ adapter = "streaming"
  /\ adapter' = "errored"
  /\ LET f == finalize(buffer, currentSection, variant)
     IN  /\ out' = parserDispatchOnError(out, f)
         /\ buffer' = f.buffer
         /\ currentSection' = f.currentSection
         /\ lastEvents' = f.events
  /\ iters' = <<>>
  /\ lastOp' = "finalize"
  /\ prevBuffer' = buffer
  /\ prevSection' = currentSection
  /\ finalizeCalls' = "once"
  /\ outState' = "completed"
  /\ UNCHANGED <<requestVars, adapterVars, serverVars, variant, text, pos, events, lastChunk, dvariant, delivered, subject,
                 streamErrored, analysisInfoSent, analysisBuffer>>

NextDispatch ==
  \/ \E t \in UpstreamEventTypes : EndWithNext(UpstreamEvent(t))
  \/ EndWithComplete
  \/ EndWithError
  \/ \E t \in UpstreamEventTypes : JsonlNext(UpstreamEvent(t))
  \/ JsonlComplete
  \/ JsonlError
  \/ \E chunk \in FwdFragments : FwdNext(chunk)
  \/ FwdComplete
  \/ FwdError
  \/ \E chunk \in AnalysisFragments : AnalysisNext(chunk)
  \/ AnalysisComplete
  \/ AnalysisError
  \/ \E chunk \in ParserFragments : ParserDispatchNext(chunk)
  \/ ParserDispatchComplete
  \/ ParserDispatchError

\* the dispatchers alone: the transport stays subscribed and is not observed
DispatchSpec == InitDispatch /\ [][NextDispatch /\ UNCHANGED transportVars]_vars

----------------------------------------------------------------------------
(* The entry of a dispatcher: provider resolution before any stream is opened *)

\* dto.provider of a request: absent, empty, or a name in some letter case
RequestedNames ==
  { [defined |-> FALSE, value |-> <<>>],
    [defined |-> TRUE, value |-> <<>>],
    [defined |-> TRUE, value |-> K_deepseek],
    [defined |-> TRUE, value |-> <<"D","e","e","p","S","e","e","k">>],
    [defined |-> TRUE, value |-> K_openrouter],
    [defined |-> TRUE, value |-> <<"O","P","E","N","R","O","U","T","E","R">>],
    [defined |-> TRUE, value |-> <<"g","e","m","i","n","i">>],
    [defined |-> TRUE, value |-> <<"G","e","m","i","n","i">>] }

\* dto.model of a request: absent, or a model the client names
RequestedModels == {"undefined", "some-model"}

\* the default model of each provider
DeepseekDefaultModel == "deepseek-chat"

OpenRouterDefaultModel == "deepseek/deepseek-chat-v3-0324:free"

\* if (requestedModel) finalModel = requestedModel; else switch (providerName.toLowerCase()) { ... }
finalModelOf(name, requested) ==
  IF requested # "undefined" THEN requested
  ELSE IF toLowerCase(name) = K_deepseek THEN DeepseekDefaultModel
  ELSE OpenRouterDefaultModel

\* mutation: the provider's stream is requested without looking at the result of getProvider
generateStreamEntryNoCheck(map, pname, requested) ==
  [provider |-> getProvider(map, pname), response |-> "stream", calls |-> 1,
   finalModel |-> "unset"]

\* generateStream / generateStreamV2 up to the call of the provider:
\* providerName = dto.provider || 'openrouter'; getProvider; if (!provider) return throwError(...)
generateStreamEntry(map, pname, requested) ==
  LET name == IF pname.defined /\ pname.value # <<>> THEN pname.value ELSE K_openrouter
      p == getProvider(map, [defined |-> TRUE, value |-> name])
  IN  IF p = "null"
      THEN [provider |-> p, response |-> "configError", calls |-> 0, finalModel |-> "unset"]
      ELSE [provider |-> p, response |-> "stream", calls |-> 1,
            finalModel |-> finalModelOf(name, requested)]

InitRequest ==
  /\ dvariant \in DVariants
  /\ variant \in (IF dvariant = "parser" THEN Variants ELSE {"whole"})
  /\ ParserIdle
  /\ DispatchIdle
  /\ env \in [DEEPSEEK_API_KEY : KeyValues, OPENROUTER_API_KEY : KeyValues]
  /\ providers = initializeProviders(env)
  /\ providerName \in RequestedNames
  /\ provider = "unset"
  /\ calls = 0
  /\ response = "none"
  /\ requestedModel \in RequestedModels
  /\ finalModel = "unset"
  /\ TransportIdle
  /\ AdapterIdle
  /\ ServerIdle

\* aiProviderFactory.getProvider(providerName)
GetProvider ==
  /\ provider = "unset"
  /\ response = "none"
  /\ provider' = getProvider(providers, providerName)
  /\ UNCHANGED <<parserVars, dispatchVars, env, providers, providerName, calls, response,
                 requestedModel, finalModel, transportVars, adapterVars, serverVars>>

\* a request enters the dispatcher
GenerateStream ==
  /\ response = "none"
  /\ LET r == generateStreamEntry(providers, providerName, requestedModel)
     IN  /\ provider' = r.provider
         /\ response' = r.response
         /\ calls' = calls + r.calls
         /\ finalModel' = r.finalModel
  /\ UNCHANGED <<parserVars, dispatchVars, env, providers, providerName, requestedModel,
                 transportVars, adapterVars, serverVars>>

\* the stream of the resolved provider runs through the dispatcher
Stream ==
  /\ response = "stream"
  /\ NextDispatch
  /\ UNCHANGED transportVars

NextRequest ==
  \/ GetProvider
  \/ GenerateStream
  \/ Stream

RequestSpec == InitRequest /\ [][NextRequest]_vars

----------------------------------------------------------------------------
(* The transport: the controller subscribes to the stream a dispatcher *)
(* returns, writes every envelope, and unsubscribes when the client closes *)

\* the envelopes of one notification, each with the number of the notification
\* and its place among them
Tagged(envelopes, n) ==
  [i \in 1..Len(envelopes) |-> [envelope |-> envelopes[i], fragment |-> n, index |-> i]]

\* mutation: the handler keeps writing after unsubscribe
controllerNextAfterUnsubscribe(sub, w, items) == w \o items

\* mutation: the newest envelopes are written ahead of the earlier ones
controllerNextNewestFirst(sub, w, items) == IF sub = "subscribed" THEN items \o w ELSE w

\* next: (dataChunk) => { res.write(`data: ${dataChunk}\n\n`) }, called once per
\* envelope in the order of emission; an unsubscribed subscription's handler
\* is not called
controllerNext(sub, w, items) == IF sub = "subscribed" THEN w \o items ELSE w

\* mutation: the response is ended as soon as the first envelope is written
controllerCompleteEarly(sub, state, w, e) == e \/ (sub = "subscribed" /\ Len(w) > 0)

\* complete: () => { res.end() }: called when the stream completes, unless the
\* subscription is unsubscribed
controllerComplete(sub, state, w, e) == e \/ (sub = "subscribed" /\ state = "completed")

\* what subscription.unsubscribe() does to the dispatcher's subscription to the
\* adapter: the operators of a pipe unsubscribe from their source; the Subject
\* version subscribed to the raw stream itself and kept no Subscription, so
\* nothing reaches that subscription
unsubscribeSource(dv, sub) == IF dv = "fwd" THEN sub ELSE "unsubscribed"

\* a notification of the adapter (a fragment, completion or an error) runs
\* through the dispatcher; the envelopes it emits go to the controller
Notify ==
  /\ adapterSub = "subscribed"
  /\ NextDispatch
  /\ LET new == SubSeq(out', Len(out) + 1, Len(out'))
         n == IF delivered' > delivered THEN delivered' ELSE delivered + 1
     IN  written' = controllerNext(client, written, Tagged(new, n))
  /\ consumedAfter' = IF client = "unsubscribed" THEN consumedAfter + 1 ELSE consumedAfter
  /\ ended' = controllerComplete(client, outState', written', ended)
  /\ UNCHANGED <<client, adapterSub, contentType, jsonResponse, caught>>

\* res.on('close', () => { subscription.unsubscribe() }) while the stream is open
Disconnect ==
  /\ client = "subscribed"
  /\ outState = "open"
  /\ client' = "unsubscribed"
  /\ adapterSub' = unsubscribeSource(dvariant, adapterSub)
  /\ UNCHANGED <<parserVars, dispatchVars, requestVars, adapterVars, serverVars, written,
                 consumedAfter, ended, contentType, jsonResponse, caught>>

NextCancel ==
  \/ Notify
  \/ Disconnect

CancelSpec == InitDispatch /\ [][NextCancel]_vars

----------------------------------------------------------------------------
(* Provider streams: generateChatStream and generateRawChatStream of the *)
(* DeepSeek and OpenRouter providers                                      *)

\* 'data: '
DATA_PREFIX == <<"d","a","t","a",":"," ">>

\* '[DONE]'
DONE_SIGNAL == <<"[","D","O","N","E","]">>

NEWLINE == <<"\n">>

\* String.prototype.startsWith
StartsWith(s, p) == Len(s) >= Len(p) /\ SubSeq(s, 1, Len(p)) = p

\* the two bytes of a character that UTF-8 encodes in two bytes, the character
\* itself and U+FFFD, the replacement character
LEAD_BYTE == "0xC3"
CONTINUATION_BYTE == "0xA9"
TWO_BYTE_CHAR == "e-acute"
REPLACEMENT_CHAR == "U+FFFD"

\* Buffer.prototype.toString(): UTF-8 decoding of one chunk on its own; a byte
\* sequence that is incomplete inside the chunk becomes U+FFFD
RECURSIVE toString(_)
toString(bytes) ==
  IF bytes = <<>> THEN <<>>
  ELSE IF Head(bytes) = LEAD_BYTE /\ Len(bytes) >= 2 /\ bytes[2] = CONTINUATION_BYTE
  THEN <<TWO_BYTE_CHAR>> \o toString(SubSeq(bytes, 3, Len(bytes)))
  ELSE IF Head(bytes) \in {LEAD_BYTE, CONTINUATION_BYTE}
  THEN <<REPLACEMENT_CHAR>> \o toString(Tail(bytes))
  ELSE <<Head(bytes)>> \o toString(Tail(bytes))

\* a JSON text that parses to an event object of the model's answer
JsonEvent == <<"{","e","}">>

\* JSON texts of an event object whose payload holds the two-byte character,
\* and the same with two replacement characters in its place
JsonAccent == <<"{", TWO_BYTE_CHAR, "}">>

JsonGarbled == <<"{", REPLACEMENT_CHAR, REPLACEMENT_CHAR, "}">>

\* a JSON text that parses to a completion chunk { choices: [{ delta: { content: 'c' } }] }
JsonDelta == <<"{","c","}">>

\* JSON.parse: ok is FALSE when it throws
jsonParse(s) ==
  IF s = JsonEvent
  THEN [ok |-> TRUE, type |-> "context_explanation", payload |-> <<>>, hasContent |-> FALSE,
        content |-> <<>>]
  ELSE IF s \in {JsonAccent, JsonGarbled}
  THEN [ok |-> TRUE, type |-> "translation_result", payload |-> SubSeq(s, 2, Len(s) - 1),
        hasContent |-> FALSE, content |-> <<>>]
  ELSE IF s = JsonDelta
  THEN [ok |-> TRUE, type |-> "undefined", payload |-> <<>>, hasContent |-> TRUE,
        content |-> <<"c">>]
  ELSE IF s = JsonOk
  THEN [ok |-> TRUE, type |-> "undefined", payload |-> <<>>, hasContent |-> FALSE,
        content |-> <<>>]
  ELSE [ok |-> FALSE, type |-> "undefined", payload |-> <<>>, hasContent |-> FALSE,
        content |-> <<>>]

\* what a provider stream hands to its subscriber
ParsedEvent(parsed) == [type |-> parsed.type, text |-> parsed.payload]

ParsingError(line) == [type |-> "parsing_error", text |-> line]

RawText(content) == [type |-> "text", text |-> content]

\* try { subscriber.next(JSON.parse(line)) } catch { subscriber.next({ type: 'parsing_error', ... }) }
parseOrParsingError(line) ==
  IF jsonParse(line).ok THEN <<ParsedEvent(jsonParse(line))>> ELSE <<ParsingError(line)>>

\* DeepSeek generateChatStream: a non-empty line of the buffer
deepseekLine(line) == IF line = <<>> THEN <<>> ELSE parseOrParsingError(line)

\* OpenRouter generateChatStream: a non-empty line of the buffer
openRouterLine(line) ==
  IF line = <<>> THEN <<>>
  ELSE IF StartsWith(line, DATA_PREFIX)
  THEN LET dataContent == Trim(SubstringFrom(line, 6))
       IN  IF dataContent = DONE_SIGNAL THEN <<>> ELSE parseOrParsingError(dataContent)
  ELSE parseOrParsingError(line)

\* while ((newlineIndex = buffer.indexOf('\n')) !== -1) { ... }
RECURSIVE chatLines(_, _)
chatLines(kind, buf) ==
  LET newlineIndex == IndexOf(buf, NEWLINE)
  IN  IF newlineIndex = -1 THEN [buffer |-> buf, events |-> <<>>]
      ELSE LET line == Trim(Substring(buf, 0, newlineIndex))
               r == chatLines(kind, SubstringFrom(buf, newlineIndex + 1))
           IN  [buffer |-> r.buffer,
                events |-> (IF kind = "deepseekChat" THEN deepseekLine(line)
                            ELSE openRouterLine(line)) \o r.events]

\* String.prototype.split('\n')
RECURSIVE splitLines(_)
splitLines(s) ==
  LET newlineIndex == IndexOf(s, NEWLINE)
  IN  IF newlineIndex = -1 THEN <<s>>
      ELSE <<Substring(s, 0, newlineIndex)>> \o splitLines(SubstringFrom(s, newlineIndex + 1))

\* OpenRouter generateRawChatStream: one line of an SSE event
openRouterRawLine(line) ==
  IF StartsWith(line, DATA_PREFIX)
  THEN LET dataContent == Trim(SubstringFrom(line, 6))
           parsed == jsonParse(dataContent)
       IN  IF dataContent = DONE_SIGNAL THEN <<>>
           ELSE IF parsed.ok
           THEN (IF parsed.hasContent THEN <<RawText(parsed.content)>> ELSE <<>>)
           ELSE <<>>
  ELSE <<>>

\* for (const line of eventLines) { ... }
RECURSIVE openRouterRawLines(_)
openRouterRawLines(eventLines) ==
  IF eventLines = <<>> THEN <<>>
  ELSE openRouterRawLine(Head(eventLines)) \o openRouterRawLines(Tail(eventLines))

\* while ((eventEndIndex = buffer.indexOf('\n\n')) !== -1) { ... }
RECURSIVE rawEvents(_)
rawEvents(buf) ==
  LET eventEndIndex == IndexOf(buf, NEWLINE \o NEWLINE)
  IN  IF eventEndIndex = -1 THEN [buffer |-> buf, events |-> <<>>]
      ELSE LET eventLines == splitLines(Substring(buf, 0, eventEndIndex))
               r == rawEvents(SubstringFrom(buf, eventEndIndex + 2))
           IN  [buffer |-> r.buffer, events |-> openRouterRawLines(eventLines) \o r.events]

\* the handler of one low-level chunk: stream.on('data', ...) of OpenRouter,
\* the body of for await (const chunk of stream) of DeepSeek
onChunk(kind, buf, chunk) ==
  IF kind = "deepseekChat"
  THEN (IF chunk # <<>> THEN chatLines(kind, buf \o chunk) ELSE [buffer |-> buf, events |-> <<>>])
  ELSE IF kind = "openRouterChat" THEN chatLines(kind, buf \o toString(chunk))
  ELSE IF kind = "openRouterRaw" THEN rawEvents(buf \o toString(chunk))
  ELSE [buffer |-> buf, events |-> IF Len(chunk) > 0 THEN <<RawText(chunk)>> ELSE <<>>]

\* the end of the low-level stream: what is left in the buffer, then complete()
onEnd(kind, buf) ==
  IF kind \in {"deepseekChat", "openRouterChat"} /\ Trim(buf) # <<>>
  THEN IF jsonParse(Trim(buf)).ok
       THEN <<ParsedEvent(jsonParse(Trim(buf)))>>
       ELSE <<ParsingError(buf)>>
  ELSE <<>>

AdapterKinds == {"deepseekChat", "openRouterChat", "openRouterRaw", "deepseekRaw"}

\* a well-formed and a malformed low-level line (SSE event) of each stream
WellFormedChunk(kind) ==
  IF kind = "deepseekChat" THEN JsonEvent \o NEWLINE
  ELSE IF kind = "openRouterChat" THEN (DATA_PREFIX \o JsonEvent) \o NEWLINE
  ELSE IF kind = "openRouterRaw" THEN ((DATA_PREFIX \o JsonDelta) \o NEWLINE) \o NEWLINE
  ELSE <<"c">>

MalformedChunk(kind) ==
  IF kind = "deepseekChat" THEN JsonBad \o NEWLINE
  ELSE IF kind = "openRouterChat" THEN (DATA_PREFIX \o JsonBad) \o NEWLINE
  ELSE IF kind = "openRouterRaw" THEN ((DATA_PREFIX \o JsonBad) \o NEWLINE) \o NEWLINE
  ELSE <<"{","x">>

\* the low-level chunks a stream may receive: whole lines, parts of lines, the
\* [DONE] signal, a chunk without content; the chunks of OpenRouter are bytes,
\* also a line with a two-byte character, whole and cut inside the character
WireChunks(kind) ==
  {WellFormedChunk(kind), MalformedChunk(kind)} \cup
  (IF kind = "deepseekChat" THEN { <<"{","e">>, <<"}","\n">>, <<>> }
   ELSE IF kind = "openRouterChat"
   THEN { JsonEvent \o NEWLINE, (DATA_PREFIX \o DONE_SIGNAL) \o NEWLINE, DATA_PREFIX \o <<"{","e">>,
          <<"{", LEAD_BYTE, CONTINUATION_BYTE, "}">> \o NEWLINE,
          <<"{", LEAD_BYTE>>, <<CONTINUATION_BYTE, "}">> \o NEWLINE }
   ELSE IF kind = "openRouterRaw"
   THEN { ((DATA_PREFIX \o DONE_SIGNAL) \o NEWLINE) \o NEWLINE, (DATA_PREFIX \o JsonDelta) \o NEWLINE,
          NEWLINE }
   ELSE { <<>> })

InitAdapter ==
  /\ variant = "whole"
  /\ ParserIdle
  /\ dvariant = "none"
  /\ DispatchIdle
  /\ RequestIdle
  /\ TransportIdle
  /\ ServerIdle
  /\ akind \in AdapterKinds
  /\ wire = <<>>
  /\ lineBuffer = <<>>
  /\ emitted = <<>>
  /\ astream = "open"

\* one low-level chunk arrives
AdapterData(chunk) ==
  /\ astream = "open"
  /\ Len(wire) < MaxItems
  /\ LET r == onChunk(akind, lineBuffer, chunk)
     IN  /\ lineBuffer' = r.buffer
         /\ emitted' = emitted \o r.events
         /\ wire' = Append(wire, [chunk |-> chunk, bufferBefore |-> lineBuffer,
                                  events |-> r.events])
  /\ UNCHANGED <<parserVars, dispatchVars, requestVars, transportVars, serverVars, akind, astream>>

\* the low-level stream ends: stream.on('end', ...), the code after the for await loop
AdapterEnd ==
  /\ astream = "open"
  /\ emitted' = emitted \o onEnd(akind, lineBuffer)
  /\ astream' = "completed"
  /\ UNCHANGED <<parserVars, dispatchVars, requestVars, transportVars, serverVars, akind, wire, lineBuffer>>

\* the low-level stream fails: stream.on('error', ...), the catch around the loop
AdapterError ==
  /\ astream = "open"
  /\ astream' = "errored"
  /\ UNCHANGED <<parserVars, dispatchVars, requestVars, transportVars, serverVars, akind, wire, lineBuffer,
                 emitted>>

NextAdapter ==
  \/ \E chunk \in WireChunks(akind) : AdapterData(chunk)
  \/ AdapterEnd
  \/ AdapterError

AdapterSpec == InitAdapter /\ [][NextAdapter]_vars

----------------------------------------------------------------------------
(* The marker version of generateStreamV2 fed with the fragments of one text *)

\* white space around the JSON of the analysis payload: none, a little, or
\* enough to pass the length the safety break allows
Paddings == { <<>>, <<" ">>, [i \in 1..AnalysisLimit |-> " "] }

\* what follows the analysis payload
Translations ==
  { <<>>, <<"a","b">>, <<"a","b">> \o STREAM_END_MARKER,
    (<<"a","b">> \o STREAM_END_MARKER) \o <<"c">> }

\* the model's answers: an analysis payload, decodable or not, and a translation
AnalysisTexts ==
  { (((ANALYSIS_START_MARKER \o pad) \o json) \o ANALYSIS_END_MARKER) \o tail :
      pad \in Paddings, json \in {JsonOk, JsonBad}, tail \in Translations }

InitAnalysis ==
  /\ variant = "whole"
  /\ text \in AnalysisTexts
  /\ pos = 0
  /\ buffer = <<>>
  /\ currentSection = NoSection
  /\ events = <<>>
  /\ lastOp = "none"
  /\ lastChunk = <<>>
  /\ prevBuffer = <<>>
  /\ prevSection = NoSection
  /\ lastEvents = <<>>
  /\ iters = <<>>
  /\ finalizeCalls = "none"
  /\ dvariant = "analysis"
  /\ DispatchIdle
  /\ RequestIdle
  /\ TransportIdle
  /\ AdapterIdle
  /\ ServerIdle

\* the raw stream delivers the next n characters of the text: mergeMap((chunk) => { ... })
AnalysisFeed(n) ==
  /\ dvariant = "analysis"
  /\ adapter = "streaming"
  /\ LET chunk == SubSeq(text, pos + 1, pos + n)
         r == analysisMergeMap(analysisInfoSent, analysisBuffer, chunk)
     IN  /\ out' = out \o r.responses
         /\ analysisInfoSent' = r.analysisInfoSent
         /\ analysisBuffer' = r.analysisBuffer
  /\ pos' = pos + n
  /\ delivered' = delivered + 1
  /\ UNCHANGED <<variant, text, buffer, currentSection, events, lastOp, lastChunk, prevBuffer,
                 prevSection, lastEvents, iters, finalizeCalls, dvariant, adapter, outState,
                 subject, streamErrored, requestVars, transportVars, adapterVars, serverVars>>

NextAnalysis ==
  \/ \E n \in FragmentLengths : AnalysisFeed(n)
  \/ AnalysisComplete /\ UNCHANGED transportVars
  \/ AnalysisError /\ UNCHANGED transportVars

AnalysisSpec == InitAnalysis /\ [][NextAnalysis]_vars

----------------------------------------------------------------------------
(* Two requests served side by side: every call of generateStreamV2 has its *)
(* own locals, every MarkerStreamProcessor its own fields                   *)

\* what serves a request: the marker version of generateStreamV2, its
\* forwarding version, or a MarkerStreamProcessor
PipelineKinds == {"analysis", "fwd", "processor"}

\* the locals of a call that has received nothing yet
FreshPipeline(kind) ==
  [kind |-> kind,
   analysisInfoSent |-> FALSE,
   analysisBuffer |-> <<>>,
   subject |-> [closed |-> FALSE, isStopped |-> FALSE],
   streamErrored |-> FALSE,
   buffer |-> <<>>,
   currentSection |-> NoSection,
   out |-> <<>>,
   state |-> "streaming",
   history |-> <<>>,
   overlapped |-> FALSE]

\* the fragments a raw stream delivers to a pipeline
PipelineFragments(kind) ==
  IF kind = "analysis" THEN { ANALYSIS_START_MARKER \o JsonOk, ANALYSIS_END_MARKER \o <<"a","b">> }
  ELSE IF kind = "fwd" THEN { <<"a","b">>, <<"c">> }
  ELSE { M_EXPLANATION_START \o <<"h","i","[","E","X","P","L","A","N","A","T","I","O","N">>,
         <<"_","E","N","D","]">> }

\* the notifications of a raw stream
Notifications(kind) ==
  { [op |-> "next", chunk |-> c] : c \in PipelineFragments(kind) }
  \cup { [op |-> "complete", chunk |-> <<>>], [op |-> "error", chunk |-> <<>>] }

\* mutation: the buffers and the flag are kept in one place for all requests
localsOfShared(ps, r) ==
  [ps[r] EXCEPT !.analysisBuffer = ps[1].analysisBuffer,
                !.analysisInfoSent = ps[1].analysisInfoSent,
                !.streamErrored = ps[1].streamErrored,
                !.subject = ps[1].subject,
                !.buffer = ps[1].buffer,
                !.currentSection = ps[1].currentSection]

\* the state a handler of request r works on: let analysisInfoSent / let
\* analysisBuffer / const subject / let streamErrored of its own call of
\* generateStreamV2, private buffer / private currentSection of its own processor
localsOf(ps, r) == ps[r]

\* the marker version: mergeMap, completion, catchError
analysisStep(st, n) ==
  IF n.op = "next"
  THEN LET r == analysisMergeMap(st.analysisInfoSent, st.analysisBuffer, n.chunk)
       IN  [st EXCEPT !.analysisInfoSent = r.analysisInfoSent,
                      !.analysisBuffer = r.analysisBuffer,
                      !.out = st.out \o r.responses]
  ELSE IF n.op = "complete" THEN [st EXCEPT !.state = "completed"]
  ELSE [st EXCEPT !.out = analysisOnError(st.out), !.state = "errored"]

\* the forwarding version: next, finalize, catchError
fwdStep(st, n) ==
  IF n.op = "next" THEN [st EXCEPT !.out = fwdOnNext(st.subject, st.out, n.chunk)]
  ELSE IF n.op = "complete"
  THEN LET f == fwdFinalize(st.subject, st.streamErrored, st.out)
       IN  [st EXCEPT !.out = f.out, !.subject = f.subject, !.state = "completed"]
  ELSE LET c == fwdCatchError(st.subject, st.out)
           f == fwdFinalize(c.subject, TRUE, c.out)
       IN  [st EXCEPT !.out = f.out, !.subject = f.subject, !.streamErrored = TRUE,
                      !.state = "errored"]

\* a MarkerStreamProcessor: process for a fragment, finalize when the stream ends
processorStep(st, n) ==
  IF n.op = "next"
  THEN LET r == process(st.buffer, st.currentSection, n.chunk, "chunking")
       IN  [st EXCEPT !.buffer = r.buffer, !.currentSection = r.currentSection,
                      !.out = st.out \o r.events]
  ELSE LET f == finalize(st.buffer, st.currentSection, "chunking")
       IN  [st EXCEPT !.buffer = f.buffer, !.currentSection = f.currentSection,
                      !.out = st.out \o f.events,
                      !.state = IF n.op = "complete" THEN "completed" ELSE "errored"]

\* one notification handled by the pipeline whose locals are st
pipelineStep(st, n) ==
  IF st.kind = "analysis" THEN analysisStep(st, n)
  ELSE IF st.kind = "fwd" THEN fwdStep(st, n)
  ELSE processorStep(st, n)

\* the notifications of a history that carry a fragment
Fragments(history) == { i \in 1..Len(history) : history[i].op = "next" }

InitConcurrent ==
  /\ variant = "whole"
  /\ ParserIdle
  /\ dvariant = "none"
  /\ DispatchIdle
  /\ RequestIdle
  /\ TransportIdle
  /\ AdapterIdle
  /\ pipelines \in { <<FreshPipeline(a), FreshPipeline(b)>> : a \in PipelineKinds, b \in PipelineKinds }
  /\ tts = NoTts

\* a notification of the raw stream of request r arrives; overlapped notes
\* that the other request was in flight at such a moment
Arrive(r, n) ==
  /\ pipelines[r].state = "streaming"
  /\ n.op = "next" => Cardinality(Fragments(pipelines[r].history)) < MaxEach
  /\ LET st == localsOf(pipelines, r)
         after == pipelineStep(st, n)
         other == pipelines[3 - r]
         concurrent == other.state = "streaming" /\ other.history # <<>>
     IN  pipelines' = [pipelines EXCEPT ![r] =
                         [pipelines[r] EXCEPT
                            !.analysisInfoSent = after.analysisInfoSent,
                            !.analysisBuffer = after.analysisBuffer,
                            !.subject = after.subject,
                            !.streamErrored = after.streamErrored,
                            !.buffer = after.buffer,
                            !.currentSection = after.currentSection,
                            !.out = pipelines[r].out
                                      \o SubSeq(after.out, Len(st.out) + 1, Len(after.out)),
                            !.state = after.state,
                            !.history = Append(pipelines[r].history, n),
                            !.overlapped = pipelines[r].overlapped \/ concurrent]]
  /\ UNCHANGED <<parserVars, dispatchVars, requestVars, transportVars, adapterVars, tts>>

NextConcurrent ==
  \E r \in 1..2 : \E n \in Notifications(pipelines[r].kind) : Arrive(r, n)

ConcurrentSpec == InitConcurrent /\ [][NextConcurrent]_vars

----------------------------------------------------------------------------
(* HttpExceptionFilter *)

\* the statuses an HttpException may carry
HttpStatuses == {400, 401, 403, 404, 500, 503}

\* what exception.getResponse() returns: a string, an object whose message is
\* an array, an object whose message is a string
ResponseForms == {"string", "messageArray", "messageString"}

\* the exceptions that may reach the filter: an HttpException, another Error,
\* a thrown value that is no Error
Exceptions ==
  { [kind |-> "HttpException", status |-> st, form |-> f] : st \in HttpStatuses, f \in ResponseForms }
  \cup { [kind |-> "Error", status |-> 0, form |-> "none"],
         [kind |-> "value", status |-> 0, form |-> "none"] }

\* the Content-Type a response may have when the filter runs
ContentTypes ==
  { "text/event-stream", "text/event-stream; charset=utf-8", "application/json", "audio/mpeg",
    "undefined" }

\* status, code and message the filter derives from the exception
filterDerive(exception) ==
  IF exception.kind = "HttpException"
  THEN [status |-> exception.status,
        code |-> ToString(exception.status),
        message |-> IF exception.form = "string" THEN "errorResponse"
                    ELSE IF exception.form = "messageArray" THEN "joined messages"
                    ELSE "errorResponse.message"]
  ELSE IF exception.kind = "Error"
  THEN [status |-> 500, code |-> "UNKNOWN_ERROR", message |-> "exception.message"]
  ELSE [status |-> 500, code |-> "500", message |-> "Internal server error"]

\* new ApiResponse(code, message, { type: 'error', payload: { message, details } })
FilterErrorEvent(code) == ApiResponseError(code, EventData("error", <<>>, "", ""))

\* what is written outside the stream of envelopes carries no fragment number
Untagged(envelope) == [envelope |-> envelope, fragment |-> 0, index |-> 1]

\* mutation: every exception is answered with the JSON response
filterCatchAlwaysJson(ct, exception, w, e) ==
  [written |-> w, ended |-> TRUE,
   json |-> [status |-> filterDerive(exception).status, code |-> filterDerive(exception).code]]

\* HttpExceptionFilter.catch(exception, host)
filterCatch(ct, exception, w, e) ==
  LET d == filterDerive(exception)
  IN  IF ct = "text/event-stream"
      THEN [written |-> Append(w, Untagged(FilterErrorEvent(d.code))), ended |-> TRUE,
            json |-> NoJson]
      ELSE [written |-> w, ended |-> TRUE, json |-> [status |-> d.status, code |-> d.code]]

\* a response of any kind on which nothing has been written
InitFilter ==
  /\ variant = "whole"
  /\ ParserIdle
  /\ dvariant = "none"
  /\ DispatchIdle
  /\ RequestIdle
  /\ client = "subscribed"
  /\ adapterSub = "subscribed"
  /\ written = <<>>
  /\ consumedAfter = 0
  /\ ended = FALSE
  /\ contentType \in ContentTypes
  /\ jsonResponse = NoJson
  /\ caught = NoException
  /\ AdapterIdle
  /\ ServerIdle

\* an exception reaches the filter
Catch(exception) ==
  /\ caught = NoException
  /\ ~ended
  /\ LET r == filterCatch(contentType, exception, written, ended)
     IN  /\ written' = r.written
         /\ ended' = r.ended
         /\ jsonResponse' = r.json
  /\ caught' = exception
  /\ UNCHANGED <<parserVars, dispatchVars, requestVars, adapterVars, serverVars, client,
                 adapterSub, consumedAfter, contentType>>

NextFilter == \E exception \in Exceptions : Catch(exception)

FilterSpec == InitFilter /\ [][NextFilter]_vars

----------------------------------------------------------------------------
(* The controllers that write the event stream themselves *)

\* the raw line 'data: [ERROR]': no envelope, no code
ERROR_MARKER == [code |-> "none", data |-> EventData("[ERROR]", <<>>, "", "")]

\* error: (error) => { if (!res.headersSent) res.status(500).json(...) else
\* { res.write('data: [ERROR]\n\n'); res.end() } }
controllerError(headersSent, w) ==
  IF ~headersSent
  THEN [written |-> w, ended |-> TRUE, json |-> [status |-> 500, code |-> "none"]]
  ELSE [written |-> Append(w, Untagged(ERROR_MARKER)), ended |-> TRUE, json |-> NoJson]

\* the configurations of the transport runs: both API keys, or none
TransportConfigs ==
  { [DEEPSEEK_API_KEY |-> "key", OPENROUTER_API_KEY |-> "key"],
    [DEEPSEEK_API_KEY |-> "undefined", OPENROUTER_API_KEY |-> "undefined"] }

\* the controller has set the headers and flushed them
InitTransport ==
  /\ dvariant \in DVariants
  /\ variant \in (IF dvariant = "parser" THEN Variants ELSE {"whole"})
  /\ ParserIdle
  /\ DispatchIdle
  /\ env \in TransportConfigs
  /\ providers = initializeProviders(env)
  /\ providerName = [defined |-> FALSE, value |-> <<>>]
  /\ provider = "unset"
  /\ calls = 0
  /\ response = "none"
  /\ requestedModel = "undefined"
  /\ finalModel = "unset"
  /\ TransportIdle
  /\ AdapterIdle
  /\ ServerIdle

\* the controller calls the service and subscribes to what it returns; a
\* throwError stream calls the error handler at once (res.flushHeaders() ran)
Open ==
  /\ response = "none"
  /\ ~ended
  /\ LET r == generateStreamEntry(providers, providerName, requestedModel)
         e == controllerError(TRUE, written)
     IN  /\ provider' = r.provider
         /\ response' = r.response
         /\ calls' = calls + r.calls
         /\ finalModel' = r.finalModel
         /\ written' = IF r.response = "configError" THEN e.written ELSE written
         /\ ended' = IF r.response = "configError" THEN e.ended ELSE ended
         /\ jsonResponse' = IF r.response = "configError" THEN e.json ELSE jsonResponse
  /\ UNCHANGED <<parserVars, dispatchVars, adapterVars, serverVars, env, providers, providerName,
                 requestedModel, client, adapterSub, consumedAfter, contentType, caught>>

\* the handler throws before it has subscribed: the exception reaches the filter
Throw(exception) ==
  /\ response = "none"
  /\ Catch(exception)

\* a notification of the adapter reaches the subscribed controller
TransportNotify ==
  /\ response = "stream"
  /\ Notify

NextTransport ==
  \/ Open
  \/ \E exception \in {[kind |-> "Error", status |-> 0, form |-> "none"]} : Throw(exception)
  \/ TransportNotify
  \/ Disconnect

TransportSpec == InitTransport /\ [][NextTransport]_vars

----------------------------------------------------------------------------
(* The service call and the controller's subscription as two steps: the     *)
(* Subject version subscribes to the raw stream inside generateStreamV2,    *)
(* the controller subscribes to the returned stream afterwards              *)

\* generateStreamV2 has returned, the controller has not subscribed yet
InitEarly ==
  /\ dvariant \in DVariants
  /\ variant \in (IF dvariant = "parser" THEN Variants ELSE {"whole"})
  /\ ParserIdle
  /\ DispatchIdle
  /\ RequestIdle
  /\ client = "pending"
  /\ adapterSub = "subscribed"
  /\ written = <<>>
  /\ consumedAfter = 0
  /\ ended = FALSE
  /\ contentType = "text/event-stream"
  /\ jsonResponse = NoJson
  /\ caught = NoException
  /\ AdapterIdle
  /\ ServerIdle

\* Subject.subscribe: a Subject that is stopped completes the new subscriber
\* at once and replays nothing
subscribeToSubject(sub, e) == e \/ sub.isStopped

\* streamObservable.subscribe({ next, error, complete })
Subscribe ==
  /\ client = "pending"
  /\ client' = "subscribed"
  /\ ended' = subscribeToSubject(subject, ended)
  /\ UNCHANGED <<parserVars, dispatchVars, requestVars, adapterVars, serverVars, adapterSub,
                 written, consumedAfter, contentType, jsonResponse, caught>>

\* a notification of the adapter: before the controller has subscribed only
\* the Subject version is subscribed to the adapter (a pipe subscribes to its
\* source when it is subscribed to)
EarlyNotify ==
  /\ client = "pending" => dvariant = "fwd"
  /\ Notify

NextEarly ==
  \/ Subscribe
  \/ EarlyNotify
  \/ Disconnect

EarlySpec == InitEarly /\ [][NextEarly]_vars

----------------------------------------------------------------------------
(* POST /tts: TtsService.synthesizeSpeech and TtsController.synthesize      *)

\* the language and the voice a request may carry
TtsLanguages == {"undefined", "zh", "zh-CN", "en"}
TtsVoices == {"undefined", "Sean"}

\* what the synthesizer of the SDK may signal; "init" is an exception thrown
\* while the synthesizer is created or started, "start" the rejection of
\* synthesizer.start(...)
SdkEvents == {"data", "completed", "closed", "failed", "start", "init"}

\* how a service that replaces TtsService (the mock of the e2e test) may settle
StubOutcomes ==
  { [state |-> "resolved", value |-> v, exception |-> NoException] :
      v \in {"readable", "undefined", "object"} }
  \cup { [state |-> "rejected", value |-> "none", exception |-> x] : x \in Exceptions }

\* language = 'en' when the argument is undefined
languageOrDefault(language) == IF language = "undefined" THEN "en" ELSE language

\* TtsService.getDefaultVoice(language), on language?.toLowerCase()
getDefaultVoice(language) ==
  IF language \in {"zh", "zh-CN"} THEN "aixia" ELSE "Olivia"

\* const finalVoice = voice || this.getDefaultVoice(language)
finalVoiceOf(language, voice) ==
  IF voice # "undefined" THEN voice ELSE getDefaultVoice(languageOrDefault(language))

\* resolve(value) / reject(error): a promise settles once
settle(promise, outcome) == IF promise.state = "pending" THEN outcome ELSE promise

\* the handlers synthesizeSpeech installs on the synthesizer, and its catch
sdkHandler(t, ev) ==
  LET failure == [state |-> "rejected", value |-> "none",
                  exception |-> [kind |-> "Error", status |-> 0, form |-> "none"]]
      counted == [t EXCEPT !.sdkEvents = t.sdkEvents + 1]
  IN  CASE ev = "data" ->
             [counted EXCEPT !.pushed = IF t.audioEnded \/ t.destroyed THEN t.pushed
                                        ELSE t.pushed + 1]
        [] ev = "completed" ->
             [counted EXCEPT !.audioEnded = TRUE,
                             !.promise = settle(t.promise,
                                                [state |-> "resolved", value |-> "readable",
                                                 exception |-> NoException])]
        [] ev = "closed" -> [counted EXCEPT !.audioEnded = TRUE]
        [] OTHER ->
             [counted EXCEPT !.destroyed = TRUE, !.promise = settle(t.promise, failure)]

\* the catch block of the controller always answers 500
synthesizeAlways500(promise) ==
  IF promise.state = "resolved" /\ promise.value = "readable"
  THEN [thrown |-> NoException, status |-> 200, contentType |-> "audio/mpeg"]
  ELSE [thrown |-> [kind |-> "HttpException", status |-> 500, form |-> "string"],
        status |-> 0, contentType |-> "undefined"]

\* TtsController.synthesize after the await: the StreamableFile it returns
\* with @HttpCode(200), or the exception it throws
synthesize(promise) ==
  LET internal == [kind |-> "HttpException", status |-> 500, form |-> "string"]
  IN  IF promise.state = "resolved"
      THEN IF promise.value = "readable"
           THEN [thrown |-> NoException, status |-> 200, contentType |-> "audio/mpeg"]
           ELSE [thrown |-> internal, status |-> 0, contentType |-> "undefined"]
      ELSE IF promise.exception.kind = "HttpException"
           THEN [thrown |-> promise.exception, status |-> 0, contentType |-> "undefined"]
           ELSE [thrown |-> internal, status |-> 0, contentType |-> "undefined"]

\* the response of the request: the controller's, or the one the exception
\* filter writes for what the controller throws (no Content-Type is set yet)
ttsRespond(promise) ==
  LET r == synthesize(promise)
  IN  IF r.thrown = NoException
      THEN [status |-> r.status, contentType |-> r.contentType]
      ELSE [status |-> filterCatch("undefined", r.thrown, <<>>, FALSE).json.status,
            contentType |-> "application/json"]

InitTts ==
  /\ variant = "whole"
  /\ ParserIdle
  /\ dvariant = "none"
  /\ DispatchIdle
  /\ RequestIdle
  /\ TransportIdle
  /\ AdapterIdle
  /\ pipelines = <<>>
  /\ \E service \in {"TtsService", "stub"}, language \in TtsLanguages, voice \in TtsVoices :
       tts = [NoTts EXCEPT !.service = service, !.language = language, !.voice = voice,
                           !.finalVoice = finalVoiceOf(language, voice)]

\* the continuation of the await runs as soon as the promise has settled,
\* before any further event of the synthesizer
AwaitingContinuation == tts.promise.state # "pending" /\ tts.res.status = 0

\* the synthesizer signals ev
SdkEvent(ev) ==
  /\ tts.service = "TtsService"
  /\ ~AwaitingContinuation
  /\ tts.sdkEvents < MaxItems
  /\ ev = "init" => tts.sdkEvents = 0
  /\ tts' = sdkHandler(tts, ev)
  /\ UNCHANGED <<parserVars, dispatchVars, requestVars, transportVars, adapterVars, pipelines>>

\* a replaced service settles its promise
StubSettle(outcome) ==
  /\ tts.service = "stub"
  /\ tts.promise.state = "pending"
  /\ tts' = [tts EXCEPT !.promise = outcome]
  /\ UNCHANGED <<parserVars, dispatchVars, requestVars, transportVars, adapterVars, pipelines>>

\* the controller resumes after the await and the request is answered
Synthesize ==
  /\ AwaitingContinuation
  /\ tts' = [tts EXCEPT !.res = ttsRespond(tts.promise)]
  /\ UNCHANGED <<parserVars, dispatchVars, requestVars, transportVars, adapterVars, pipelines>>

NextTts ==
  \/ \E ev \in SdkEvents : SdkEvent(ev)
  \/ \E outcome \in StubOutcomes : StubSettle(outcome)
  \/ Synthesize

TtsSpec == InitTts /\ [][NextTts]_vars

----------------------------------------------------------------------------
(* Helpers of the properties *)

IsType(e, type) == e.data.type = type

\* the concatenated text of the text_chunk events of a sequence
RECURSIVE ConcatText(_)
ConcatText(evs) ==
  IF evs = <<>> THEN <<>>
  ELSE (IF IsType(Head(evs), "text_chunk") THEN Head(evs).data.text ELSE <<>>)
       \o ConcatText(Tail(evs))

\* a sequence of events with every run of adjacent text_chunk events merged
\* into one: the events up to the boundaries of the text_chunk events
RECURSIVE MergeText(_)
MergeText(evs) ==
  IF Len(evs) < 2 THEN evs
  ELSE IF IsType(evs[1], "text_chunk") /\ IsType(evs[2], "text_chunk")
  THEN MergeText(<<TextChunk(evs[1].data.text \o evs[2].data.text)>> \o SubSeq(evs, 3, Len(evs)))
  ELSE <<evs[1]>> \o MergeText(Tail(evs))

\* positions of the events of a type
Positions(evs, type) == { i \in 1..Len(evs) : IsType(evs[i], type) }

\* a section is open right before position i of a sequence of events
OpenBefore(evs, i) ==
  LET marks == { j \in 1..(i - 1) : IsType(evs[j], "section_start") \/ IsType(evs[j], "section_end") }
  IN  marks # {} /\ IsType(evs[CHOOSE j \in marks : \A k \in marks : k <= j], "section_start")

\* events is a run of text_chunk events carrying txt, followed by tail
IsTextThen(evs, txt, tail) ==
  LET n == Len(evs) - Len(tail)
  IN  /\ n >= 0
      /\ SubSeq(evs, n + 1, Len(evs)) = tail
      /\ \A i \in 1..n : IsType(evs[i], "text_chunk") /\ Len(evs[i].data.text) > 0
      /\ ConcatText(SubSeq(evs, 1, n)) = txt

\* the buffer an iteration of the loop of the last process call started with
BufferBefore(k) == IF k = 1 THEN prevBuffer \o lastChunk ELSE iters[k - 1].bufferAfter

\* a fragment with no bracket: no marker, no part of a marker
PlainFragment(chunk) ==
  /\ Len(chunk) > 0
  /\ \A i \in 1..Len(chunk) : chunk[i] \notin {"[", "]"}

\* the events of a fresh processor fed the delivered text as one fragment and then finalized
SingleFragmentEvents ==
  LET p == process(<<>>, NoSection, SubSeq(text, 1, pos), variant)
      f == finalize(p.buffer, p.currentSection, variant)
  IN  p.events \o f.events

----------------------------------------------------------------------------
(* Properties of MarkerStreamProcessor, checked under Spec *)

\* C1: however the delivered text was split into fragments, process over the
\* fragments followed by finalize yields the same section_start / section_end
\* events in the same order, with the same concatenated text between them, as
\* one process call with the whole text followed by finalize.
C1_FragmentationIndependent ==
  finalizeCalls = "once" => MergeText(events) = MergeText(SingleFragmentEvents)

\* C1 witness: a whole text with a section and text was fed one character at a
\* time and finalized
C1_Witness ==
  /\ finalizeCalls = "once"
  /\ pos = Len(text)
  /\ Len(text) > 1
  /\ Len(lastChunk) = 1
  /\ Positions(events, "section_start") # {}
  /\ Positions(events, "text_chunk") # {}
  /\ Positions(events, "section_end") # {}

\* C5: every text_chunk is emitted while a section is open; text handled
\* while no section is open is dropped: the iteration that meets it emits no
\* text_chunk, and finalize emits nothing when no section is open.
C5_TextOnlyInsideSection ==
  /\ \A i \in Positions(events, "text_chunk") : OpenBefore(events, i)
  /\ \A k \in 1..Len(iters) :
       iters[k].sectionBefore = NoSection => Positions(iters[k].events, "text_chunk") = {}
  /\ (lastOp = "finalize" /\ prevSection = NoSection) => lastEvents = <<>>

\* C5 witness: the text began outside any section, a section opened later and
\* carried text, and the run is finalized
C5_Witness ==
  /\ lastOp = "finalize"
  /\ pos = Len(text)
  /\ Len(text) > Len(Prose)
  /\ SubSeq(text, 1, Len(Prose)) = Prose
  /\ Positions(events, "text_chunk") # {}

\* C6: an open marker of section B met while section A is open yields the
\* text before the marker, then section_end(A), then section_start(B), and
\* makes B the current section.
C6_ImplicitCloseBeforeOpen ==
  \A k \in 1..Len(iters) :
    (iters[k].isStart /\ iters[k].sectionBefore # NoSection) =>
      /\ IsTextThen(iters[k].events, iters[k].textBefore,
                    << SectionEnd(iters[k].sectionBefore),
                       SectionStart(SectionNameOf(iters[k].marker)) >>)
      /\ iters[k].sectionAfter = SectionNameOf(iters[k].marker)
      /\ (k = Len(iters) => currentSection = SectionNameOf(iters[k].marker))

\* C6 witness: an open marker of another section, with text before it, met
\* while a section is open
C6_Witness ==
  \E k \in 1..Len(iters) :
    /\ iters[k].isStart
    /\ iters[k].sectionBefore # NoSection
    /\ iters[k].sectionBefore # iters[k].sectionAfter
    /\ Len(iters[k].textBefore) > 0

\* C7: a close marker whose section is not the open one emits no section_end
\* and leaves the current section as it was; the marker and the text before it
\* leave the buffer, which continues with the text after the marker.
C7_StrayCloseIgnored ==
  \A k \in 1..Len(iters) :
    (~iters[k].isStart /\ iters[k].sectionBefore # ExpectedSectionOf(iters[k].marker)) =>
      /\ Positions(iters[k].events, "section_end") = {}
      /\ Positions(iters[k].events, "section_start") = {}
      /\ iters[k].sectionAfter = iters[k].sectionBefore
      /\ BufferBefore(k) = (iters[k].textBefore \o iters[k].marker) \o iters[k].bufferAfter
      /\ (k = Len(iters) => currentSection = iters[k].sectionBefore /\ buffer = iters[k].bufferAfter)

\* C7 witness: a close marker of another section met while a section is open,
\* with text after it
C7_Witness ==
  \E k \in 1..Len(iters) :
    /\ ~iters[k].isStart
    /\ iters[k].sectionBefore \notin {NoSection, ExpectedSectionOf(iters[k].marker)}
    /\ Len(iters[k].bufferAfter) > 0

\* C8: a second finalize right after the first returns no event and leaves
\* buffer and currentSection unchanged.
C8_FinalizeIdempotent ==
  finalizeCalls = "twice" =>
    /\ lastEvents = <<>>
    /\ buffer = prevBuffer
    /\ currentSection = prevSection

\* C8 witness: finalize was called twice and the first call had flushed text
\* and closed a section
C8_Witness ==
  /\ finalizeCalls = "twice"
  /\ pos = Len(text)
  /\ text[Len(text)] = "y"
  /\ Len(events) >= 3
  /\ IsType(events[Len(events)], "section_end")

\* C9 as stated: with a section open, a fragment with no marker and no part of
\* a marker is emitted as text_chunk by the same process call, which leaves
\* the buffer empty.
C9_PlainFragmentEmittedAtOnce ==
  (lastOp = "process" /\ prevSection # NoSection /\ PlainFragment(lastChunk)) =>
    /\ buffer = <<>>
    /\ Positions(lastEvents, "text_chunk") # {}

\* C9 amended: with a section open, a fragment with no bracket makes process
\* emit nothing and is appended to the buffer; the held text is emitted when a
\* later marker is met (all the text before that marker, in the same call).
C9_PlainFragmentHeld ==
  /\ (lastOp = "process" /\ prevSection # NoSection /\ PlainFragment(lastChunk)) =>
       /\ lastEvents = <<>>
       /\ buffer = prevBuffer \o lastChunk
       /\ currentSection = prevSection
  /\ \A k \in 1..Len(iters) :
       iters[k].sectionBefore # NoSection =>
         ConcatText(iters[k].events) = iters[k].textBefore

\* C9 witness: a fragment with no bracket arrived while a section was open and
\* earlier text was already held
C9_Witness ==
  /\ lastOp = "process"
  /\ prevSection # NoSection
  /\ PlainFragment(lastChunk)
  /\ Len(prevBuffer) > 0

\* C10: finalize with text in the buffer and a section open emits that text
\* as text_chunk events followed by section_end of that section; with text in
\* the buffer and no section open it emits nothing; either way the buffer is
\* empty afterwards.
C10_FinalizeFlush ==
  (lastOp = "finalize" /\ Len(prevBuffer) > 0) =>
    /\ prevSection # NoSection => IsTextThen(lastEvents, prevBuffer, <<SectionEnd(prevSection)>>)
    /\ prevSection = NoSection => lastEvents = <<>>
    /\ buffer = <<>>

\* C10 witness: finalize flushed more text than one chunk of the chunking
\* version holds
C10_Witness ==
  /\ lastOp = "finalize"
  /\ prevSection # NoSection
  /\ Len(prevBuffer) > DefaultChunkSize
  /\ variant = "chunking"
  /\ Len(lastEvents) > 2

----------------------------------------------------------------------------
(* Properties of the dispatchers, checked under DispatchSpec *)

\* the done envelopes of the output carrying a status
DoneWith(status) == { i \in Positions(out, "done") : out[i].data.status = status }

\* C2: once the output stream has ended it holds exactly one done envelope,
\* and that envelope is the last one (the three dispatchers the claim names).
C2_ExactlyOneDoneLast ==
  (dvariant \in {"endWith", "jsonl", "fwd"} /\ outState = "completed") =>
    /\ Cardinality(Positions(out, "done")) = 1
    /\ IsType(out[Len(out)], "done")

\* C3: the done envelope that ends the output carries status completed
\* exactly when the adapter's stream completed without error, and no
\* done(completed) is emitted on a path where the adapter's stream errored.
C3_DoneStatusFollowsOutcome ==
  (dvariant \in {"endWith", "fwd", "analysis"} /\ outState = "completed") =>
    /\ (out # <<>> /\ IsType(out[Len(out)], "done")) =>
         (out[Len(out)].data.status = "completed" <=> adapter = "completed")
    /\ adapter = "errored" => DoneWith("completed") = {}

----------------------------------------------------------------------------
(* Properties of the envelopes, checked under DispatchSpec *)

StructuralTypes == {"section_start", "text_chunk", "section_end", "analysis_info", "done"}

OriginCode(type) ==
  IF type = "error" THEN "STREAM_GENERATION_ERROR"
  ELSE IF type = "parsing_error" THEN "AI_JSON_PARSE_ERROR"
  ELSE IF type = "fragment_error" THEN "FRAGMENT_ERROR"
  ELSE "0"

\* C12: the code of an envelope identifies the origin of its event: the
\* error event of an adapter failure carries STREAM_GENERATION_ERROR, a
\* parsing_error event AI_JSON_PARSE_ERROR, a fragment_error event
\* FRAGMENT_ERROR, and every other event "0" (so none of the three codes is
\* attached to another event).
C12_CodeIdentifiesOrigin ==
  \A i \in 1..Len(out) : out[i].code = OriginCode(out[i].data.type)

----------------------------------------------------------------------------
(* Properties of provider resolution, checked under RequestSpec *)

\* two names are equal up to the case of their letters
EqualsIgnoreCase(a, b) ==
  /\ Len(a) = Len(b)
  /\ \A i \in 1..Len(a) :
       \/ a[i] = b[i]
       \/ \E k \in 1..Len(UpperCaseLetters) :
            {a[i], b[i]} = {UpperCaseLetters[k], LowerCaseLetters[k]}

\* the providers registered under the requested name, whatever its letter case
RegisteredAs(pname) ==
  { e \in providers : pname.defined /\ EqualsIgnoreCase(pname.value, e[1]) }

\* the provider registered as 'openrouter', if any
DefaultRegistered == { e \in providers : e[1] = K_openrouter }

\* C13: getProvider(name) returns the provider registered under the
\* lower-cased name when there is one; otherwise the provider registered as
\* 'openrouter' when there is one; otherwise null.
C13_GetProviderResolution ==
  provider # "unset" =>
    IF RegisteredAs(providerName) # {}
    THEN \E e \in RegisteredAs(providerName) : provider = e[2]
    ELSE IF DefaultRegistered # {}
    THEN provider = "OpenRouterChatProvider"
    ELSE provider = "null"

\* C13 witness: a name in mixed case resolved to its own provider while the
\* default provider was not configured
C13_Witness ==
  /\ provider = "DeepseekChatProvider"
  /\ response = "none"
  /\ providerName.value = <<"D","e","e","p","S","e","e","k">>
  /\ DefaultRegistered = {}

\* C14: when neither the requested nor the default provider is available the
\* dispatcher answers with the configuration error, no provider stream has
\* been requested, and no envelope was emitted or written before the error.
C14_ConfigErrorBeforeAnyCall ==
  /\ (response # "none" /\ RegisteredAs(providerName) = {} /\ DefaultRegistered = {}) =>
       response = "configError"
  /\ response = "configError" =>
       /\ calls = 0
       /\ out = <<>>
       /\ written = <<>>
       /\ delivered = 0

\* C14 witness: a request for a provider that is not configured, with no
\* default provider either, was refused
C14_Witness ==
  /\ response = "configError"
  /\ providerName.value = K_deepseek
  /\ providers = {}

----------------------------------------------------------------------------
(* Recovery of MarkerStreamProcessor, checked under RecoverySpec *)

\* the last n elements of a sequence
LastN(s, n) == SubSeq(s, Len(s) - n + 1, Len(s))

\* C15: after any duplicate open marker, stray close marker or close marker
\* of another section, however the text is split into fragments, a later
\* well-formed section still yields its section_start, its text and its
\* section_end, and leaves the processor with no section open and nothing held.
C15_RecoversAfterViolation ==
  pos = Len(text) =>
    /\ Len(MergeText(events)) >= 3
    /\ LastN(MergeText(events), 3)
         = << SectionStart("EXPLANATION"), TextChunk(Prose), SectionEnd("EXPLANATION") >>
    /\ buffer = <<>>
    /\ currentSection = NoSection

\* C15 witness: a close marker arrived for another section than the open one,
\* the well-formed section came later one character at a time, and all of the
\* text is consumed
C15_Witness ==
  /\ pos = Len(text)
  /\ lastOp = "process"
  /\ Len(lastChunk) = 1
  /\ SubSeq(text, 1, Len(M_DICTIONARY_START \o M_EXPLANATION_END))
       = M_DICTIONARY_START \o M_EXPLANATION_END
  /\ Positions(events, "section_end") # {}

----------------------------------------------------------------------------
(* Properties of the transport, checked under CancelSpec *)

\* C16: from the step in which the client's subscription is unsubscribed on,
\* nothing more is written to the transport, whatever the adapter does
\* afterwards.
C16_NothingWrittenAfterDisconnect ==
  [][client' = "unsubscribed" => written' = written]_vars

\* C16 witness: after the client unsubscribed the adapter went on and the
\* dispatcher emitted envelopes that were not written
C16_Witness ==
  /\ client = "unsubscribed"
  /\ consumedAfter > 0
  /\ Len(out) > Len(written)

\* C17: once the client has unsubscribed, the dispatcher's subscription to the
\* adapter is torn down and no notification of the adapter is consumed any
\* more, in every dispatcher.
C17_AdapterTornDownOnDisconnect ==
  client = "unsubscribed" =>
    /\ adapterSub = "unsubscribed"
    /\ consumedAfter = 0

\* C18: envelopes are written in the order of the fragments that caused them
\* and, within one fragment, in the order they were produced; what is written
\* is what the dispatcher emitted, in the same order.
C18_WrittenInArrivalOrder ==
  /\ \A i \in 1..Len(written) : \A j \in 1..Len(written) :
       i < j =>
         \/ written[i].fragment < written[j].fragment
         \/ /\ written[i].fragment = written[j].fragment
            /\ written[i].index < written[j].index
  /\ Len(written) <= Len(out)
  /\ \A i \in 1..Len(written) : written[i].envelope = out[i]

\* C18 witness: the marker dispatcher wrote the envelopes of two fragments,
\* two of them caused by the same fragment
C18_Witness ==
  /\ dvariant = "analysis"
  /\ Len(written) >= 3
  /\ \E i \in 1..(Len(written) - 1) : written[i].fragment = written[i + 1].fragment
  /\ \E i \in 1..(Len(written) - 1) : written[i].fragment < written[i + 1].fragment

----------------------------------------------------------------------------
(* Properties of the provider streams, checked under AdapterSpec *)

\* C19: in every provider stream a malformed low-level line that arrives on
\* an empty line buffer produces one parsing_error event and does not end the
\* stream; a well-formed line that arrives later on an empty line buffer is
\* still delivered as one event that is no parsing_error.
C19_MalformedLineSurfaces ==
  \A i \in 1..Len(wire) :
    (wire[i].chunk = MalformedChunk(akind) /\ wire[i].bufferBefore = <<>>
       /\ akind # "deepseekRaw") =>
      /\ Len(wire[i].events) = 1
      /\ wire[i].events[1].type = "parsing_error"
      /\ \A j \in (i + 1)..Len(wire) :
           (wire[j].chunk = WellFormedChunk(akind) /\ wire[j].bufferBefore = <<>>) =>
             /\ Len(wire[j].events) = 1
             /\ wire[j].events[1].type # "parsing_error"

----------------------------------------------------------------------------
(* Properties of the analysis extraction, checked under AnalysisSpec *)

\* a text that holds an analysis payload JSON.parse accepts between its markers
Decodable(t) ==
  LET startIndex == IndexOf(t, ANALYSIS_START_MARKER)
      endIndex == IndexOf(t, ANALYSIS_END_MARKER)
  IN  /\ startIndex # -1
      /\ endIndex # -1
      /\ startIndex < endIndex
      /\ JsonParses(Trim(Substring(t, startIndex + Len(ANALYSIS_START_MARKER), endIndex)))

\* a text_chunk that shows a marker of the analysis payload or its JSON
ShowsAnalysis(t) ==
  \/ IndexOf(t, ANALYSIS_START_MARKER) # -1
  \/ IndexOf(t, ANALYSIS_END_MARKER) # -1
  \/ IndexOf(t, JsonOk) # -1

\* C20: however the fragments split a text with a decodable analysis payload,
\* once the whole text is delivered the output holds exactly one analysis_info
\* event, and no text_chunk shows a marker or the JSON of the payload.
C20_AnalysisBufferedUntilDecoded ==
  (dvariant = "analysis" /\ pos = Len(text) /\ Len(text) > 0 /\ Decodable(text)) =>
    /\ Cardinality(Positions(out, "analysis_info")) = 1
    /\ \A i \in Positions(out, "text_chunk") : ~ShowsAnalysis(out[i].data.text)

----------------------------------------------------------------------------
(* Further properties of MarkerStreamProcessor, checked under Spec *)

\* a proper prefix of a marker of the tables ends the text
EndsWithMarkerPrefix(txt) ==
  \E k \in 1..Len(allMarkers) : \E n \in 1..(Len(allMarkers[k]) - 1) :
    EndsWith(txt, SubSeq(allMarkers[k], 1, n))

\* C22: after every process call the buffer holds no complete marker, open or
\* close, as a substring.
C22_NoCompleteMarkerInBuffer ==
  lastOp = "process" => \A k \in 1..Len(allMarkers) : IndexOf(buffer, allMarkers[k]) = -1

\* C22 witness: after a marker was consumed, a process call left text and the
\* beginning of another marker in the buffer
C22_Witness ==
  /\ lastOp = "process"
  /\ currentSection # NoSection
  /\ Len(buffer) > Len(Prose) + 1
  /\ SubSeq(buffer, 1, Len(Prose)) = Prose
  /\ EndsWithMarkerPrefix(buffer)

\* the section_start and section_end events of a sequence, in order
RECURSIVE SectionMarks(_)
SectionMarks(evs) ==
  IF evs = <<>> THEN <<>>
  ELSE (IF IsType(Head(evs), "section_start") \/ IsType(Head(evs), "section_end")
        THEN <<Head(evs)>> ELSE <<>>) \o SectionMarks(Tail(evs))

\* C23: in the events the parser has produced, section_start and section_end
\* alternate, beginning with section_start, and each section_end names the
\* section of the section_start right before it.
C23_StartEndAlternate ==
  LET marks == SectionMarks(events)
  IN  \A i \in 1..Len(marks) :
        IF i % 2 = 1
        THEN IsType(marks[i], "section_start")
        ELSE /\ IsType(marks[i], "section_end")
             /\ marks[i].data.section = marks[i - 1].data.section

\* C23 witness: a section was closed by the open marker of another section,
\* and that one was closed later
C23_Witness ==
  LET marks == SectionMarks(events)
  IN  /\ Len(marks) >= 4
      /\ marks[1].data.section # marks[3].data.section
      /\ IsType(marks[4], "section_end")

\* C27: after finalize returns no section is open, and every section_start
\* has its section_end.
C27_FinalizeClosesOpenSection ==
  lastOp = "finalize" =>
    /\ currentSection = NoSection
    /\ Cardinality(Positions(events, "section_start")) = Cardinality(Positions(events, "section_end"))

----------------------------------------------------------------------------
(* Further properties of the analysis extraction, checked under AnalysisSpec *)

\* a text that holds, between the two markers, a payload JSON.parse rejects
Undecodable(t) ==
  LET startIndex == IndexOf(t, ANALYSIS_START_MARKER)
      endIndex == IndexOf(t, ANALYSIS_END_MARKER)
  IN  /\ startIndex # -1
      /\ endIndex # -1
      /\ startIndex < endIndex
      /\ ~JsonParses(Trim(Substring(t, startIndex + Len(ANALYSIS_START_MARKER), endIndex)))

\* a text_chunk that shows a marker of the undecodable span or its payload
ShowsUndecodable(t) ==
  \/ IndexOf(t, ANALYSIS_START_MARKER) # -1
  \/ IndexOf(t, ANALYSIS_END_MARKER) # -1
  \/ IndexOf(t, JsonBad) # -1

\* what follows the end marker of the analysis payload, up to [STREAM_END]
TranslationOf(t) ==
  LET rest == SubstringFrom(t, IndexOf(t, ANALYSIS_END_MARKER) + Len(ANALYSIS_END_MARKER))
      finalMarkerIndex == IndexOf(rest, STREAM_END_MARKER)
  IN  IF finalMarkerIndex # -1 THEN Substring(rest, 0, finalMarkerIndex) ELSE rest

\* C28: when the JSON of the analysis payload does not decode, no text_chunk
\* shows the markers or the payload of the span, no error envelope is emitted
\* for it, and the text that follows the span is still forwarded.
C28_UndecodableSpanSkipped ==
  (dvariant = "analysis" /\ adapter # "errored" /\ pos = Len(text) /\ Len(text) > 0
     /\ Undecodable(text)) =>
    /\ \A i \in Positions(out, "text_chunk") : ~ShowsUndecodable(out[i].data.text)
    /\ Positions(out, "error") = {}
    /\ Len(TranslationOf(text)) > 0 => IndexOf(ConcatText(out), TranslationOf(text)) # -1

----------------------------------------------------------------------------
(* Further properties of the dispatcher's entry, checked under RequestSpec *)

\* the default model of a provider
DefaultModelOfProvider(p) ==
  IF p = "DeepseekChatProvider" THEN DeepseekDefaultModel ELSE OpenRouterDefaultModel

\* C29: when the request names no model, the model handed to the provider's
\* stream is the default model of the provider that getProvider returned.
C29_DefaultModelOfSelectedProvider ==
  (response = "stream" /\ requestedModel = "undefined") =>
    finalModel = DefaultModelOfProvider(provider)

----------------------------------------------------------------------------
(* Isolation of concurrent requests, checked under ConcurrentSpec *)

\* the locals of a pipeline that received the notifications of a history alone
RECURSIVE RunAlone(_, _)
RunAlone(kind, history) ==
  IF history = <<>> THEN FreshPipeline(kind)
  ELSE pipelineStep(RunAlone(kind, SubSeq(history, 1, Len(history) - 1)), history[Len(history)])

----------------------------------------------------------------------------
(* Properties of the transport, checked under TransportSpec and FilterSpec *)

\* C24: the response is ended only when every envelope the dispatcher has
\* emitted, the last one included, is written; and from then on nothing is
\* written to it.
C24_EndAfterLastWrite ==
  /\ [](ended => /\ Len(written) >= Len(out)
                 /\ \A i \in 1..Len(out) : written[i].envelope = out[i])
  /\ [][ended => (written' = written /\ ended')]_vars

\* C24 witness: the response is ended after the envelopes of a completed stream
\* were written, the terminal done last
C24_Witness ==
  /\ ended
  /\ outState = "completed"
  /\ Len(written) >= 3
  /\ written[Len(written)].envelope = Done("completed")

\* C25: an exception caught on a response in event-stream mode writes exactly
\* one error envelope, whose code is the HTTP status as a string for an
\* HttpException and UNKNOWN_ERROR for another Error, then ends the response,
\* and sends no plain JSON response.
C25_FilterWritesOneErrorEvent ==
  (caught # NoException /\ contentType = "text/event-stream") =>
    /\ Len(written) = 1
    /\ IsType(written[1].envelope, "error")
    /\ caught.kind = "HttpException" => written[1].envelope.code = ToString(caught.status)
    /\ caught.kind = "Error" => written[1].envelope.code = "UNKNOWN_ERROR"
    /\ ended
    /\ jsonResponse = NoJson

\* C25 witness: an HttpException with status 503 was caught on an event stream
C25_Witness ==
  /\ caught # NoException
  /\ caught.kind = "HttpException"
  /\ caught.status = 503
  /\ contentType = "text/event-stream"
  /\ Len(written) = 1
  /\ written[1].envelope.code = "503"

C26_TtsFailureStatus ==
  (tts.res.status # 0 /\ tts.promise.state = "rejected") =>
    /\ tts.promise.exception.kind # "HttpException" => tts.res.status = 500
    /\ tts.promise.exception.kind = "HttpException" =>
         tts.res.status = tts.promise.exception.status
    /\ ~(tts.res.status = 200 /\ tts.res.contentType = "audio/mpeg")

\* the synthesizer reported a failure after some audio data and the request
\* was answered
C26_Witness ==
  /\ tts.service = "TtsService"
  /\ tts.pushed > 0
  /\ tts.destroyed
  /\ tts.promise.state = "rejected"
  /\ tts.promise.exception.kind = "Error"
  /\ tts.res.status = 500

----------------------------------------------------------------------------
(* The end of the answer and the text buffered for the analysis payload,    *)
(* checked under AnalysisSpec; the safety break under DispatchSpec          *)

\* C31: once the analysis payload has been extracted, the text forwarded in
\* text_chunk events is a prefix of the translation up to [STREAM_END]:
\* neither the marker, nor a part of it, nor what follows it is forwarded,
\* however the fragments split the text.
C31_StreamEndNeverForwarded ==
  dvariant = "analysis" =>
    /\ IndexOf(ConcatText(out), STREAM_END_MARKER) = -1
    /\ Positions(out, "analysis_info") # {} =>
         StartsWith(TranslationOf(text), ConcatText(out))

\* C32: when the raw stream completes while the dispatcher is still waiting
\* for the analysis markers, the text it has buffered has been forwarded in
\* text_chunk events by the time the output stream ends.
C32_BufferedTextFlushedOnComplete ==
  (dvariant = "analysis" /\ adapter = "completed" /\ outState = "completed"
     /\ ~analysisInfoSent /\ Len(analysisBuffer) > 0) =>
    IndexOf(ConcatText(out), analysisBuffer) # -1

\* both analysis markers occur in t, the start marker first
MarkersInOrder(t) ==
  LET startIndex == IndexOf(t, ANALYSIS_START_MARKER)
      endIndex == IndexOf(t, ANALYSIS_END_MARKER)
  IN  startIndex # -1 /\ endIndex # -1 /\ startIndex < endIndex

\* t up to its first [STREAM_END], or all of t
UpToStreamEnd(t) ==
  LET finalMarkerIndex == IndexOf(t, STREAM_END_MARKER)
  IN  IF finalMarkerIndex # -1 THEN Substring(t, 0, finalMarkerIndex) ELSE t

\* the text_chunk that carries t, none for the empty text
TextChunkOf(t) == IF Len(t) > 0 THEN <<TextChunk(t)>> ELSE <<>>

\* chunk arrives while no analysis block has been found and takes the
\* accumulated text beyond the limit without both markers in order
SafetyBreak(chunk) ==
  /\ AnalysisNext(chunk)
  /\ ~analysisInfoSent
  /\ Len(analysisBuffer \o chunk) > AnalysisLimit
  /\ ~MarkersInOrder(analysisBuffer \o chunk)

\* while no analysis block has been found nothing is emitted and at most
\* AnalysisLimit characters are held back; once the extraction has ended no
\* analysis_info is emitted any more
BufferingAndAbandon ==
  /\ (dvariant = "analysis" /\ ~analysisInfoSent /\ adapter # "errored") =>
       out = <<>> /\ Len(analysisBuffer) <= AnalysisLimit
  /\ (dvariant = "analysis" /\ analysisInfoSent) =>
       Positions(out', "analysis_info") = Positions(out, "analysis_info")

\* C33 (as stated): nothing is emitted while at most 500 characters have
\* accumulated without an analysis block; the fragment that takes the
\* accumulated text beyond 500 characters without both markers in order makes
\* the whole accumulated text one text_chunk and ends the analysis extraction.
C33_SafetyBreakForwardsAll ==
  [][ /\ BufferingAndAbandon
      /\ \A chunk \in AnalysisFragments :
           SafetyBreak(chunk) =>
             /\ analysisInfoSent'
             /\ analysisBuffer' = <<>>
             /\ out' = out \o TextChunkOf(analysisBuffer \o chunk) ]_vars

\* C33 (amended): as above, but the accumulated text is forwarded only up to
\* its first [STREAM_END] marker when it holds one.
C33_SafetyBreakForwardsUpToStreamEnd ==
  [][ /\ BufferingAndAbandon
      /\ \A chunk \in AnalysisFragments :
           SafetyBreak(chunk) =>
             /\ analysisInfoSent'
             /\ analysisBuffer' = <<>>
             /\ out' = out \o TextChunkOf(UpToStreamEnd(analysisBuffer \o chunk)) ]_vars

\* C33 witness: text and [STREAM_END] were held back, the next fragment took
\* the accumulated text beyond the limit, and the text before [STREAM_END]
\* was forwarded
C33_Witness ==
  /\ dvariant = "analysis"
  /\ analysisInfoSent
  /\ delivered = 3
  /\ analysisBuffer = <<>>
  /\ out = <<TextChunk(<<"a","b">>)>>

----------------------------------------------------------------------------
(* Order of the analysis_info event, checked under DispatchSpec: the        *)
(* fragments come in any order, also with a second analysis block           *)

\* C34: the output of a request holds at most one analysis_info event, and
\* that event comes before every text_chunk of the output.
C34_OneAnalysisInfoFirst ==
  dvariant = "analysis" =>
    /\ Cardinality(Positions(out, "analysis_info")) <= 1
    /\ \A i \in Positions(out, "analysis_info") : \A j \in Positions(out, "text_chunk") : i < j

\* C34 witness: an analysis_info was emitted, text followed, and a further
\* analysis start marker arrived after it
C34_Witness ==
  /\ dvariant = "analysis"
  /\ Positions(out, "analysis_info") = {1}
  /\ Cardinality(Positions(out, "text_chunk")) >= 2
  /\ IndexOf(ConcatText(out), ANALYSIS_START_MARKER) # -1

----------------------------------------------------------------------------
(* The scan loop of process, checked under Spec *)

\* the positions of t at which one of the ten markers occurs
MarkerOccurrences(t) ==
  { p \in { q \in 0..(Len(t) - 1) : t[q + 1] = "[" } :
      \E k \in 1..Len(allMarkers) :
        /\ p + Len(allMarkers[k]) <= Len(t)
        /\ Substring(t, p, p + Len(allMarkers[k])) = allMarkers[k] }

\* C35: in a process call every iteration of the scan loop that finds a
\* marker shortens the buffer by at least the length of that marker, and the
\* number of such iterations is at most the number of marker occurrences in
\* the text the call started with.
C35_ScanLoopTerminates ==
  lastOp = "process" =>
    /\ \A i \in 1..Len(iters) :
         Len(iters[i].bufferAfter) <= Len(BufferBefore(i)) - Len(iters[i].marker)
    /\ Len(iters) <= Cardinality(MarkerOccurrences(prevBuffer \o lastChunk))
    /\ findFirstMarker(buffer) = NullMarker

\* C35 witness: one call handled two markers and left text in the buffer
C35_Witness ==
  /\ lastOp = "process"
  /\ Len(iters) = 2
  /\ Len(buffer) > 0

\* the iterations of the last process call that met text inside a section
TextIterations ==
  { i \in 1..Len(iters) : iters[i].sectionBefore # NoSection /\ Len(iters[i].textBefore) > 0 }

\* C36: in the chunking version, the text_chunk events a process call emits
\* for the text before a marker carry between 1 and 3 characters each, and
\* their texts, concatenated in the order of emission, are that text.
C36_ChunksCoverSpan ==
  (variant = "chunking" /\ lastOp = "process") =>
    \A i \in TextIterations :
      /\ \A j \in Positions(iters[i].events, "text_chunk") :
           /\ Len(iters[i].events[j].data.text) >= 1
           /\ Len(iters[i].events[j].data.text) <= DefaultChunkSize
      /\ ConcatText(iters[i].events) = iters[i].textBefore

\* C36 witness: a span of five characters left as one full chunk and one
\* chunk of two characters
C36_Witness ==
  /\ variant = "chunking"
  /\ lastOp = "process"
  /\ \E i \in TextIterations :
       /\ iters[i].textBefore = Prose
       /\ Cardinality(Positions(iters[i].events, "text_chunk")) = 2

----------------------------------------------------------------------------
(* The provider streams and the chunking of the response, checked under     *)
(* AdapterSpec                                                              *)

\* the bytes of the response received so far, whatever their chunking
RECURSIVE WireText(_)
WireText(w) == IF w = <<>> THEN <<>> ELSE Head(w).chunk \o WireText(Tail(w))

\* the content deltas of a response, line by line in the order of the text
ContentDeltas(bytes) == openRouterRawLines(splitLines(bytes))

\* C37: when the response of OpenRouter has ended, the raw stream has
\* delivered the content deltas of the response, each once and in the order
\* of the response, however the bytes were chunked and also when the last
\* event is not followed by a blank line.
C37_EveryDeltaDelivered ==
  (akind = "openRouterRaw" /\ astream = "completed") =>
    emitted = ContentDeltas(WireText(wire))

\* the text of the response: the chunks of DeepSeek are strings, those of
\* OpenRouter are the bytes of a UTF-8 text
ResponseText ==
  IF akind = "deepseekChat" THEN WireText(wire) ELSE toString(WireText(wire))

\* the events of a response that arrives in one piece and then ends
EventsOfText(kind, t) ==
  LET r == chatLines(kind, t)
  IN  r.events \o onEnd(kind, r.buffer)

\* C38: when the response of a line-oriented stream has ended, the events it
\* delivered are those of the whole text of the response received in one
\* piece: they do not depend on where the chunks cut the text.
C38_EventsIndependentOfChunking ==
  (akind \in {"deepseekChat", "openRouterChat"} /\ astream = "completed") =>
    emitted = EventsOfText(akind, ResponseText)

----------------------------------------------------------------------------
(* The marker search, checked under Spec *)

\* findFirstMarker on t gives the marker at the first marker occurrence of t,
\* and null exactly when t has no marker occurrence
FindsEarliest(t) ==
  LET found == findFirstMarker(t)
      occurrences == MarkerOccurrences(t)
  IN  /\ (found = NullMarker) <=> (occurrences = {})
      /\ found # NullMarker =>
           /\ found.index = Min(occurrences)
           /\ \E k \in 1..Len(allMarkers) : found.marker = allMarkers[k]
           /\ Substring(t, found.index, found.index + Len(found.marker)) = found.marker
           /\ found.isStart <=> (\E k \in 1..Len(startMarkers) : found.marker = startMarkers[k])

\* where in the text a process call started with the marker of iteration k lies
HandledAt(k) ==
  (Len(prevBuffer \o lastChunk) - Len(BufferBefore(k))) + Len(iters[k].textBefore)

\* C39: findFirstMarker returns the marker with the smallest start index among
\* the ten markers and null exactly when the text holds no complete marker, on
\* every buffer the scan loop searches; so a process call handles the marker
\* occurrences of its text, all of them, in the order of the text.
C39_EarliestMarkerFirst ==
  lastOp = "process" =>
    /\ FindsEarliest(buffer)
    /\ \A k \in 1..Len(iters) :
         LET found == findFirstMarker(BufferBefore(k))
         IN  /\ FindsEarliest(BufferBefore(k))
             /\ found.marker = iters[k].marker
             /\ found.index = Len(iters[k].textBefore)
    /\ { HandledAt(k) : k \in 1..Len(iters) } = MarkerOccurrences(prevBuffer \o lastChunk)
    /\ \A k \in 1..(Len(iters) - 1) : HandledAt(k) < HandledAt(k + 1)

\* C39 witness: the text held a close marker before an open marker, which the
\* table lists the other way round, and text without marker was left
C39_Witness ==
  /\ lastOp = "process"
  /\ Len(iters) = 2
  /\ iters[1].marker = M_EXPLANATION_END
  /\ iters[2].marker = M_DICTIONARY_START
  /\ Len(buffer) > 0

====
